---- MODULE Spec2Model ----
(***************************************************************************)
(* Session Saver (vscode-session-builder): the snapshot / restore logic    *)
(* of src/src/extension.ts as a state machine.                              *)
(*                                                                         *)
(* The editor window (tab groups, tabs, dirty documents), the cursor       *)
(* tracker, the session directories and the configuration are the state;   *)
(* every command is a coroutine whose steps are the continuations between  *)
(* two awaits of its handler.                                              *)
(***************************************************************************)
EXTENDS Integers, Sequences, FiniteSets, TLC

VARIABLES
    groups,        \* vscode.window.tabGroups.all: Seq of [tabs, active]
    activeGroup,   \* index in groups of tabGroups.activeTabGroup
    dirty,         \* documents with unsaved changes (doc.isDirty)
    tracker,       \* lastKnownCursorPositions: uri string -> position
    caret,         \* editor.selection.active of a document's editor: uri string -> position
    inbox,         \* notifications of the host that the extension has not been given yet
    heard,         \* per document, the last thing the tracker was told about it
    deferred,      \* whether the host hands its notifications over later, or at once
    fs,            \* session directories: dir -> file name -> content
    fileLocation,  \* setting sessionSaver.fileLocation
    saveBehavior,  \* setting sessionSaver.saveBehaviorOnRestore
    hasWorkspace,  \* whether vscode.workspace.workspaceFolders is non-empty
    customFolder,  \* setting sessionSaver.customFolder when it names an existing
                   \* folder, "" otherwise
    workspaceFolder, \* setting sessionSaver.workspaceFolder, likewise
    pc,            \* position of the running command ("idle": none runs,
                   \* "done": its handler is about to return)
    cmd,           \* the command that runs, or ran last
    entry,         \* SessionFileRecord the command works on
    sessionData,   \* restore: the loaded SessionFileContent
    currentTabs,   \* restore: collectTextTabs() taken before the prompt loop
    idx,           \* restore: index in currentTabs (prompt loop) or sortedTabs (replay)
    sortedTabs,    \* restore: the replay order
    globalActive,  \* restore: the descriptor to focus at the end (Maybe)
    snapshot,      \* save: the SessionFileContent about to be written (Maybe)
    sessionName,   \* save: the name the file is written under
    missing,       \* files that cannot be opened (deleted from disk)
    start,         \* the editor and the files when the running command started
    ncmds,         \* number of commands started so far
    log            \* what the running command has shown and done, in order

trackVars   == <<tracker, caret, inbox, heard, deferred>>
editorVars  == <<groups, activeGroup, dirty, trackVars, missing>>
settingVars == <<fileLocation, saveBehavior, hasWorkspace>>
configVars  == <<fileLocation, saveBehavior, hasWorkspace, customFolder, workspaceFolder>>
restoreVars == <<sessionData, currentTabs, idx, sortedTabs, globalActive>>
saveVars    == <<snapshot, sessionName>>
vars == <<groups, activeGroup, dirty, tracker, caret, inbox, heard, deferred, fs, fileLocation, saveBehavior,
          hasWorkspace, customFolder, workspaceFolder, pc, cmd, entry, sessionData, currentTabs, idx,
          sortedTabs, globalActive, snapshot, sessionName, missing, start,
          ncmds, log>>

-----------------------------------------------------------------------------
(* Optional values: undefined is the empty set, a value v is {v}.          *)

None == {}
Some(v) == {v}
The(m) == CHOOSE v \in m : TRUE

Min(a, b) == IF a <= b THEN a ELSE b
Max(a, b) == IF a >= b THEN a ELSE b

RemoveAt(s, i) == [j \in 1..(Len(s) - 1) |-> IF j < i THEN s[j] ELSE s[j + 1]]
InsertAfter(s, i, x) == SubSeq(s, 1, i) \o <<x>> \o SubSeq(s, i + 1, Len(s))

RECURSIVE SeqsNoDup(_, _)
\* all sequences of length n of pairwise distinct elements of S
SeqsNoDup(S, n) ==
    IF n = 0 THEN {<<>>}
    ELSE UNION {{Append(s, x) : x \in S \ {s[j] : j \in 1..Len(s)}} :
                s \in SeqsNoDup(S, n - 1)}

RECURSIVE Flatten(_)
Flatten(ss) == IF ss = <<>> THEN <<>> ELSE Head(ss) \o Flatten(Tail(ss))

-----------------------------------------------------------------------------
(* Resources.  A vscode.Uri is a record; uri.toString() and Uri.parse are  *)
(* the two conversions between it and the string stored in a session.      *)

FileA     == [scheme |-> "file", path |-> "/a"]
FileB     == [scheme |-> "file", path |-> "/b"]
FileC     == [scheme |-> "file", path |-> "/c"]
GitA      == [scheme |-> "git", path |-> "/a"]
Untitled1 == [scheme |-> "untitled", path |-> "Untitled-1"]
Uris      == {FileA, FileB, FileC, GitA, Untitled1}

UriToString(u) ==
    IF u.scheme = "file" THEN "file://" \o u.path ELSE u.scheme \o ":" \o u.path

UriStrings == {UriToString(u) : u \in Uris}

UriParse(s) == CHOOSE u \in Uris : UriToString(u) = s

(* a string with a scheme that is no scheme: vscode.Uri.parse throws on it *)
Unparseable == "a b:c"

UriParseThrows(s) == s = Unparseable

(* Tab inputs (vscode.Tab.input).                                          *)
TextInput(u)    == [kind |-> "text", uri |-> u]
DiffInput(o, m) == [kind |-> "diff", original |-> o, modified |-> m]
MergeInput(d)   == [kind |-> "merge", destination |-> d]   \* d: Maybe uri
OtherInput      == [kind |-> "other"]

Positions == {[line |-> 0, character |-> 0], [line |-> 3, character |-> 7]}

-----------------------------------------------------------------------------
(* Session serializer, save path.                                          *)

getTabUriDiffOriginal(tab) ==
    LET input == tab.input IN
    IF input.kind = "text" THEN Some(input.uri)
    ELSE IF input.kind = "diff" THEN Some(input.original)
    ELSE IF input.kind = "merge" THEN input.destination
    ELSE None

getTabUri(tab) ==
    LET input == tab.input IN
    IF input.kind = "text" THEN Some(input.uri)
    ELSE IF input.kind = "diff" THEN Some(input.modified)
    ELSE IF input.kind = "merge" THEN input.destination
    ELSE None

collectGroup(gs, g) ==
    LET all == [i \in 1..Len(gs[g].tabs) |->
                   [tab |-> gs[g].tabs[i], uri |-> getTabUri(gs[g].tabs[i]),
                    groupIndex |-> g - 1, tabIndex |-> i - 1]]
        kept == SelectSeq(all, LAMBDA r : r.uri # None /\ The(r.uri).scheme = "file")
    IN [i \in 1..Len(kept) |-> [kept[i] EXCEPT !.uri = The(kept[i].uri)]]

collectTextTabs(gs) == Flatten([g \in 1..Len(gs) |-> collectGroup(gs, g)])

TrackerGet(tr, s) == IF s \in DOMAIN tr THEN Some(tr[s]) ELSE None

SESSION_FILE_VERSION == 2

createSessionSnapshotGroupActive(gs, ag, tr) ==
    LET found == collectTextTabs(gs) IN
    [version |-> SESSION_FILE_VERSION,
     tabs |-> [i \in 1..Len(found) |->
        LET r == found[i]
            g == r.groupIndex + 1
        IN [uri |-> UriToString(r.uri),
            groupIndex |-> r.groupIndex,
            tabIndex |-> r.tabIndex,
            viewColumn |-> g,
            isGroupActive |-> (gs[g].active = r.tabIndex + 1),
            isGlobalActive |-> (gs[g].active = r.tabIndex + 1),
            cursor |-> TrackerGet(tr, UriToString(r.uri))]]]

createSessionSnapshot(gs, ag, tr) ==
    LET found == collectTextTabs(gs) IN
    [version |-> SESSION_FILE_VERSION,
     tabs |-> [i \in 1..Len(found) |->
        LET r == found[i]
            g == r.groupIndex + 1
        IN [uri |-> UriToString(r.uri),
            groupIndex |-> r.groupIndex,
            tabIndex |-> r.tabIndex,
            viewColumn |-> g,
            isGroupActive |-> (gs[g].active = r.tabIndex + 1),
            isGlobalActive |-> (g = ag /\ gs[g].active = r.tabIndex + 1),
            cursor |-> TrackerGet(tr, UriToString(r.uri))]]]

(* JSON.stringify: a key whose value is undefined is left out.             *)
StringifyTab(t) ==
    LET base == [uri |-> t.uri, groupIndex |-> t.groupIndex, tabIndex |-> t.tabIndex,
                 viewColumn |-> t.viewColumn, isGroupActive |-> t.isGroupActive,
                 isGlobalActive |-> t.isGlobalActive]
    IN IF t.cursor = None THEN base
       ELSE [k \in DOMAIN base \cup {"cursor"} |->
                IF k = "cursor" THEN The(t.cursor) ELSE base[k]]

JsonStringify(snap) ==
    [tag |-> "json",
     value |-> [type |-> "object",
                version |-> [t |-> "number", v |-> snap.version],
                tabs |-> [t |-> "array",
                          v |-> [i \in 1..Len(snap.tabs) |-> StringifyTab(snap.tabs[i])]]]]

FileAbsent == [tag |-> "absent"]

(* Session serializer, load path.  A property read of a parsed object:     *)
(* tabState.cursor is undefined when the key is not in the file.           *)
CursorOf(t) == IF "cursor" \in DOMAIN t THEN Some(t.cursor) ELSE None

readSessionFileAnyObject(content) ==
    IF content.tag = "absent"
    THEN [data |-> None, warning |-> "Session file not found"]
    ELSE IF content.tag # "json"
    THEN [data |-> None, warning |-> "Failed to read session file"]
    ELSE LET parsed == content.value IN
         IF parsed.type = "object"
         THEN [data |-> Some([version |-> 1,
                              tabs |-> IF parsed.tabs.t = "array" THEN parsed.tabs.v
                                       ELSE <<>>]),
               warning |-> "none"]
         ELSE [data |-> None, warning |-> "Session file is invalid"]

readSessionFileStrict(content) ==
    IF content.tag = "absent"
    THEN [data |-> None, warning |-> "Session file not found"]
    ELSE IF content.tag # "json"
    THEN [data |-> None, warning |-> "Failed to read session file"]
    ELSE LET parsed == content.value IN
         IF parsed.type = "object" /\ parsed.tabs.t = "array" /\ parsed.version.t = "number"
         THEN [data |-> Some([version |-> parsed.version.v, tabs |-> parsed.tabs.v]),
               warning |-> "none"]
         ELSE [data |-> None, warning |-> "Session file is invalid"]

WithoutCursor(t) == [k \in DOMAIN t \ {"cursor"} |-> t[k]]

readSessionFileOldNoCursor(content) ==
    IF content.tag = "absent"
    THEN [data |-> None, warning |-> "Session file not found"]
    ELSE IF content.tag # "json"
    THEN [data |-> None, warning |-> "Failed to read session file"]
    ELSE LET parsed == content.value IN
         IF parsed.type = "object" /\ parsed.tabs.t = "array"
         THEN [data |-> Some(IF parsed.version.t = "number" /\ parsed.version.v >= 2
                             THEN [version |-> parsed.version.v, tabs |-> parsed.tabs.v]
                             ELSE [version |-> 1,
                                   tabs |-> [i \in 1..Len(parsed.tabs.v) |->
                                                WithoutCursor(parsed.tabs.v[i])]]),
               warning |-> "none"]
         ELSE [data |-> None, warning |-> "Session file is invalid"]

readSessionFile(content) ==
    IF content.tag = "absent"
    THEN [data |-> None, warning |-> "Session file not found"]
    ELSE IF content.tag # "json"
    THEN [data |-> None, warning |-> "Failed to read session file"]
    ELSE LET parsed == content.value IN
         IF parsed.type = "object" /\ parsed.tabs.t = "array"
         THEN [data |-> Some([version |-> IF parsed.version.t = "number"
                                           THEN parsed.version.v ELSE 1,
                              tabs |-> parsed.tabs.v]),
               warning |-> "none"]
         ELSE [data |-> None, warning |-> "Session file is invalid"]

-----------------------------------------------------------------------------
(* Restore engine: the replay order.                                       *)

compareTabsActiveFirst(a, b) ==
    IF a.groupIndex = b.groupIndex
    THEN IF a.isGroupActive = b.isGroupActive
         THEN a.tabIndex - b.tabIndex
         ELSE IF a.isGroupActive THEN -1 ELSE 1
    ELSE a.groupIndex - b.groupIndex

compareTabs(a, b) ==
    IF a.groupIndex = b.groupIndex
    THEN IF a.isGroupActive = b.isGroupActive
         THEN a.tabIndex - b.tabIndex
         ELSE IF a.isGroupActive THEN 1 ELSE -1
    ELSE a.groupIndex - b.groupIndex

(* Array.prototype.sort is stable: an element goes after every element of  *)
(* the sorted prefix that does not compare greater than it.                *)
SortInsert(sorted, x) ==
    LET after == {j \in 1..Len(sorted) : compareTabs(sorted[j], x) <= 0}
        pos == IF after = {} THEN 0 ELSE CHOOSE j \in after : \A k \in after : k <= j
    IN InsertAfter(sorted, pos, x)

RECURSIVE SortFrom(_, _)
SortFrom(sorted, rest) ==
    IF rest = <<>> THEN sorted ELSE SortFrom(SortInsert(sorted, Head(rest)), Tail(rest))

sortTabsFileOrder(tabs) == tabs

sortTabs(tabs) == SortFrom(<<>>, tabs)

-----------------------------------------------------------------------------
(* The host editor: what the window API calls of the extension do.         *)

EmptyGroup == [tabs |-> <<>>, active |-> 0]
EmptyMap   == [s \in {} |-> [line |-> 0, character |-> 0]]

TabsOf(gs) == UNION {{gs[g].tabs[i] : i \in 1..Len(gs[g].tabs)} : g \in 1..Len(gs)}
TabIds(gs) == {t.id : t \in TabsOf(gs)}
FreshId(gs)  == CHOOSE n \in 1..(Cardinality(TabIds(gs)) + 1) :
                   n \notin TabIds(gs) /\ \A m \in 1..(n - 1) : m \in TabIds(gs)

(* the document a tab edits, if it is a text document of its own *)
TabDoc(tab) == IF tab.input.kind = "text" THEN Some(tab.input.uri)
               ELSE IF tab.input.kind = "diff" THEN Some(tab.input.modified)
               ELSE None

OpenDocs(gs) == UNION {TabDoc(t) : t \in TabsOf(gs)}

(* vscode.window.tabGroups.close(tab) *)
HostCloseTab(gs, ag, id) ==
    LET G == {g \in 1..Len(gs) : \E i \in 1..Len(gs[g].tabs) : gs[g].tabs[i].id = id} IN
    IF G = {} THEN [groups |-> gs, activeGroup |-> ag]
    ELSE LET g == CHOOSE h \in G : TRUE
             i == CHOOSE j \in 1..Len(gs[g].tabs) : gs[g].tabs[j].id = id
             left == RemoveAt(gs[g].tabs, i)
             act == IF Len(left) = 0 THEN 0
                    ELSE IF gs[g].active = i THEN Min(i, Len(left))
                    ELSE IF gs[g].active > i THEN gs[g].active - 1
                    ELSE gs[g].active
         IN IF Len(left) = 0 /\ Len(gs) > 1
            THEN [groups |-> RemoveAt(gs, g),
                  activeGroup |-> IF ag > g THEN ag - 1
                                  ELSE IF ag = g THEN Min(g, Len(gs) - 1) ELSE ag]
            ELSE [groups |-> [gs EXCEPT ![g] = [tabs |-> left, active |-> act]],
                  activeGroup |-> ag]

(* workbench.action.closeAllEditors *)
HostCloseAll == [groups |-> <<EmptyGroup>>, activeGroup |-> 1]

(* openTextDocument + showTextDocument(doc, {viewColumn, preview: false,   *)
(* preserveFocus}): the column's group is created when it does not exist,  *)
(* an editor of the document already in the group is activated, a new one  *)
(* is placed right of the group's active tab and becomes its active tab.   *)
HostShow(gs, ag, uri, viewColumn, preserveFocus) ==
    LET col == IF viewColumn = None THEN ag ELSE The(viewColumn)
        gs1 == IF col > Len(gs)
               THEN gs \o [j \in 1..(col - Len(gs)) |-> EmptyGroup] ELSE gs
        grp == gs1[col]
        have == {i \in 1..Len(grp.tabs) :
                    grp.tabs[i].input.kind = "text" /\ grp.tabs[i].input.uri = uri}
        shown == IF have # {}
                 THEN [grp EXCEPT !.active = CHOOSE i \in have : TRUE]
                 ELSE [tabs |-> InsertAfter(grp.tabs, grp.active,
                                    [id |-> FreshId(gs1), input |-> TextInput(uri)]),
                       active |-> grp.active + 1]
    IN [groups |-> [gs1 EXCEPT ![col] = shown],
        activeGroup |-> IF preserveFocus THEN ag ELSE col]

ViewColumnOf(t) == IF "viewColumn" \in DOMAIN t THEN Some(t.viewColumn) ELSE None

(* vscode.window.visibleTextEditors: the document of the active tab of     *)
(* every group                                                             *)
VisibleUris(gs) ==
    {UriToString(The(TabDoc(gs[g].tabs[gs[g].active]))) :
        g \in {h \in 1..Len(gs) : gs[h].active # 0 /\ TabDoc(gs[h].tabs[gs[h].active]) # None}}

-----------------------------------------------------------------------------
(* Cursor tracker (initializeCursorTracking): the three listeners and      *)
(* recordCursorPosition, and the notifications of the host they listen to. *)

DocClosed(s)           == [n |-> "close", uri |-> s]
SelectionChanged(s, p) == [n |-> "selection", uri |-> s, pos |-> p]
VisibleChanged(S)      == [n |-> "visible", uris |-> S]

Origin       == [line |-> 0, character |-> 0]
NewCarets    == [s \in UriStrings |-> Origin]
NothingHeard == [s \in UriStrings |-> [n |-> "none"]]

SetEntry(tr, s, p) == [x \in DOMAIN tr \cup {s} |-> IF x = s THEN p ELSE tr[x]]

recordCursorPosition(tr, s, p) == SetEntry(tr, s, p)

selectionListenerFirstOnly(tr, s, p) == IF s \in DOMAIN tr THEN tr ELSE SetEntry(tr, s, p)

selectionListener(tr, s, p) == SetEntry(tr, s, p)

closeDocListenerKeeps(tr, s) == tr

closeDocListener(tr, s) == [x \in DOMAIN tr \ {s} |-> tr[x]]

seedVisibleEditors(tr, ca, S) ==
    [x \in DOMAIN tr \cup S |-> IF x \in S THEN ca[x] ELSE tr[x]]

(* what the extension's listeners do with one notification: e is the       *)
(* tracker, the carets and the record of what was heard last               *)
Hear(e, note) ==
    IF note.n = "close"
    THEN [tracker |-> closeDocListener(e.tracker, note.uri),
          caret |-> e.caret,
          heard |-> [e.heard EXCEPT ![note.uri] = [n |-> "close"]]]
    ELSE IF note.n = "selection"
    THEN [tracker |-> selectionListener(e.tracker, note.uri, note.pos),
          caret |-> [e.caret EXCEPT ![note.uri] = note.pos],
          heard |-> [e.heard EXCEPT ![note.uri] = [n |-> "selection", pos |-> note.pos]]]
    ELSE [tracker |-> seedVisibleEditors(e.tracker, e.caret, note.uris),
          caret |-> e.caret,
          heard |-> [s \in UriStrings |->
                       IF s \in note.uris THEN [n |-> "visible", pos |-> e.caret[s]]
                       ELSE e.heard[s]]]

RECURSIVE HearAll(_, _)
HearAll(e, notes) ==
    IF notes = <<>> THEN e ELSE HearAll(Hear(e, Head(notes)), Tail(notes))

RECURSIVE SeqOf(_)
SeqOf(S) == IF S = {} THEN <<>>
            ELSE LET x == CHOOSE y \in S : TRUE IN <<x>> \o SeqOf(S \ {x})

(* what the host tells after the window went from gs to gs2: the visible   *)
(* editors when they changed, and the documents that are open no more      *)
HostNotes(gs, gs2) ==
    (IF VisibleUris(gs2) # VisibleUris(gs) THEN <<VisibleChanged(VisibleUris(gs2))>> ELSE <<>>)
    \o SeqOf({DocClosed(UriToString(u)) : u \in OpenDocs(gs) \ OpenDocs(gs2)})

Ears == [tracker |-> tracker, caret |-> caret, heard |-> heard, inbox |-> inbox]

(* notifications sent by the host: handled at once, or put in the inbox    *)
Notified(e, notes) ==
    IF deferred
    THEN [e EXCEPT !.inbox = e.inbox \o notes]
    ELSE LET h == HearAll([tracker |-> e.tracker, caret |-> e.caret, heard |-> e.heard], notes)
         IN [tracker |-> h.tracker, caret |-> h.caret, heard |-> h.heard, inbox |-> e.inbox]

SetEars(e) ==
    /\ tracker' = e.tracker
    /\ caret' = e.caret
    /\ heard' = e.heard
    /\ inbox' = e.inbox
    /\ deferred' = deferred

-----------------------------------------------------------------------------
(* Events of the log.                                                      *)

Warn(m)   == [ev |-> "warn", msg |-> m]
Info(m)   == [ev |-> "info", msg |-> m]
Prompt(id) == [ev |-> "prompt", tab |-> id]
Choice(id, c) == [ev |-> "choice", tab |-> id, choice |-> c]
ClosedTab(id, ok) == [ev |-> "closeTab", tab |-> id, closed |-> ok]
ClosedAll(ok) == [ev |-> "closeAll", closed |-> ok]
Opened(k, u, ok, focus) == [ev |-> "open", k |-> k, uri |-> u, ok |-> ok, focus |-> focus]
Thrown(m) == [ev |-> "throw", msg |-> m]
HostOpened(id, u) == [ev |-> "hostOpen", tab |-> id, uri |-> u]

ReadFile(path) == [ev |-> "read", dir |-> path.dir, file |-> path.file]

FileAt(path) == fs[path.dir][path.file]

-----------------------------------------------------------------------------
(* Restore engine (restoreSessionFromEntry), one action per continuation.  *)

SessionUris(data) == {data.tabs[i].uri : i \in 1..Len(data.tabs)}

ForeignEveryTab(ct, data, from) == from..Len(ct)

(* the tabs of the prompt loop that get a prompt (line 393) *)
Foreign(ct, data, from) ==
    {j \in from..Len(ct) : UriToString(ct[j].uri) \notin SessionUris(data)}

NoSession == [version |-> 0, tabs |-> <<>>]

(* the prompt loop from index `from` on: up to the next prompt, or to      *)
(* the call of close-all                                                   *)
PromptLoop(ct, data, from, lg) ==
    LET f == Foreign(ct, data, from) IN
    IF f = {}
    THEN /\ idx' = Len(ct) + 1
         /\ pc' = "r_closeAll"
         /\ log' = lg
    ELSE LET j == CHOOSE k \in f : \A m \in f : k <= m IN
         /\ idx' = j
         /\ pc' = "r_ask"
         /\ log' = Append(lg, Prompt(ct[j].tab.id))

RestoreReadNoEmptyCheck ==
    /\ pc = "r_read"
    /\ LET res == readSessionFile(FileAt(entry.fullPath))
           lg == Append(log, ReadFile(entry.fullPath))
       IN
       IF res.data = None
       THEN /\ log' = Append(lg, Warn(res.warning))
            /\ pc' = "done"
            /\ UNCHANGED restoreVars
       ELSE /\ sessionData' = The(res.data)
            /\ currentTabs' = collectTextTabs(groups)
            /\ PromptLoop(collectTextTabs(groups), The(res.data), 1, lg)
            /\ UNCHANGED <<sortedTabs, globalActive>>
    /\ UNCHANGED <<editorVars, fs, configVars, cmd, entry, saveVars, start, ncmds>>

RestoreRead ==
    /\ pc = "r_read"
    /\ LET res == readSessionFile(FileAt(entry.fullPath))
           lg == Append(log, ReadFile(entry.fullPath))
       IN
       IF res.data = None
       THEN /\ log' = Append(lg, Warn(res.warning))
            /\ pc' = "done"
            /\ UNCHANGED restoreVars
       ELSE LET data == The(res.data) IN
            IF Len(data.tabs) = 0
            THEN /\ log' = Append(lg, Warn("Session does not contain any tabs"))
                 /\ pc' = "done"
                 /\ UNCHANGED restoreVars
            ELSE /\ sessionData' = data
                 /\ currentTabs' = collectTextTabs(groups)
                 /\ PromptLoop(collectTextTabs(groups), data, 1, lg)
                 /\ UNCHANGED <<sortedTabs, globalActive>>
    /\ UNCHANGED <<editorVars, fs, configVars, cmd, entry, saveVars, start, ncmds>>

PromptChoices == {"Close Tab", "Cancel Restore", "undefined"}

answerProceedsUnlessCancel(choice) == choice # "Cancel Restore"

(* line 401: only 'Close Tab' lets the restore go on *)
answerProceeds(choice) == choice = "Close Tab"

RestoreAnswer ==
    /\ pc = "r_ask"
    /\ \E choice \in PromptChoices :
         LET id == currentTabs[idx].tab.id IN
         IF ~answerProceeds(choice)
         THEN /\ log' = log \o <<Choice(id, choice), Info("Session restore canceled.")>>
              /\ pc' = "done"
         ELSE /\ log' = Append(log, Choice(id, choice))
              /\ pc' = "r_close"
    /\ UNCHANGED <<editorVars, fs, configVars, cmd, entry, restoreVars, saveVars,
                   start, ncmds>>

(* a tab whose document is dirty and shown nowhere else asks before it     *)
(* closes, and stays when that is cancelled                                *)
MayVeto(gs, tab) ==
    /\ TabDoc(tab) # None
    /\ The(TabDoc(tab)) \in dirty
    /\ \A t \in TabsOf(gs) : t.id # tab.id => TabDoc(t) # TabDoc(tab)

RestoreTabClosed ==
    /\ pc = "r_close"
    /\ LET tab == currentTabs[idx].tab IN
       \E closed \in (IF MayVeto(groups, tab) THEN BOOLEAN ELSE {TRUE}) :
         LET after == IF closed THEN HostCloseTab(groups, activeGroup, tab.id)
                      ELSE [groups |-> groups, activeGroup |-> activeGroup]
         IN /\ groups' = after.groups
            /\ activeGroup' = after.activeGroup
            /\ dirty' = dirty \cap OpenDocs(after.groups)
            /\ SetEars(Notified(Ears, HostNotes(groups, after.groups)))
            /\ PromptLoop(currentTabs, sessionData, idx + 1,
                          Append(log, ClosedTab(tab.id, closed)))
    /\ UNCHANGED <<missing, fs, configVars, cmd, entry, sessionData, currentTabs,
                   sortedTabs, globalActive, saveVars, start, ncmds>>

RestoreCloseAllDone ==
    /\ pc = "r_closeAll"
    /\ \E veto \in (IF dirty \cap OpenDocs(groups) # {} THEN BOOLEAN ELSE {FALSE}) :
         /\ groups' = IF veto THEN groups ELSE HostCloseAll.groups
         /\ activeGroup' = IF veto THEN activeGroup ELSE HostCloseAll.activeGroup
         /\ dirty' = IF veto THEN dirty ELSE {}
         /\ SetEars(IF veto THEN Ears
                    ELSE Notified(Ears, HostNotes(groups, HostCloseAll.groups)))
         /\ log' = Append(log, ClosedAll(~veto))
    /\ sortedTabs' = sortTabs(sessionData.tabs)
    /\ idx' = 1
    /\ globalActive' = None
    /\ pc' = "r_open"
    /\ UNCHANGED <<missing, fs, configVars, cmd, entry, sessionData, currentTabs,
                   saveVars, start, ncmds>>

(* the cursor part of a replay step: recordCursorPosition(uri, position)   *)
ReplayCursor(tr, t) ==
    IF CursorOf(t) = None THEN tr
    ELSE LET key == UriToString(UriParse(t.uri)) IN
         [s \in DOMAIN tr \cup {key} |-> IF s = key THEN The(CursorOf(t)) ELSE tr[s]]

(* the editor of a document shown by showTextDocument: a new editor has    *)
(* its caret at the origin; the host tells what changed in the window      *)
Shown(e, gs, gs2, uri) ==
    Notified(IF uri \in OpenDocs(gs) THEN e
             ELSE [e EXCEPT !.caret[UriToString(uri)] = Origin],
             HostNotes(gs, gs2))

(* lines 434-439: the selection is set in the editor and recorded; the     *)
(* host reports the selection when it changed                              *)
ReplayEars(e, t) ==
    IF CursorOf(t) = None THEN e
    ELSE LET key == UriToString(UriParse(t.uri))
             position == The(CursorOf(t))
         IN Notified([e EXCEPT !.tracker = ReplayCursor(e.tracker, t),
                               !.caret[key] = position,
                               !.heard[key] = [n |-> "record", pos |-> position]],
                     IF position # e.caret[key]
                     THEN <<SelectionChanged(key, position)>> ELSE <<>>)

nextGlobalActiveFirst(ga, t) == IF t.isGlobalActive /\ ga = None THEN Some(t) ELSE ga

(* lines 444-446: the descriptor marked global-active that was seen last *)
nextGlobalActive(ga, t) == IF t.isGlobalActive THEN Some(t) ELSE ga

afterReplayStepAbort(ok, k, n, ga) ==
    IF ~ok THEN "done" ELSE IF k < n THEN "r_open" ELSE IF ga # None THEN "r_focus" ELSE "done"

afterReplayStepSkipFocus(ok, k, n, ga) ==
    IF k < n THEN "r_open" ELSE "done"

(* where the replay loop goes after descriptor k of n, opened or not *)
afterReplayStep(ok, k, n, ga) ==
    IF k < n THEN "r_open" ELSE IF ga # None THEN "r_focus" ELSE "done"

(* line 425 is outside the try of lines 426-442: what Uri.parse throws     *)
(* ends the command                                                        *)
RestoreOpened ==
    /\ pc = "r_open"
    /\ IF UriParseThrows(sortedTabs[idx].uri)
       THEN /\ log' = Append(log, Thrown("UriError"))
            /\ pc' = "done"
            /\ SetEars(Ears)
            /\ UNCHANGED <<groups, activeGroup, globalActive, idx>>
       ELSE
       LET t == sortedTabs[idx]
           uri == UriParse(t.uri)
           ok == uri \notin missing
           after == HostShow(groups, activeGroup, uri, ViewColumnOf(t), TRUE)
           ga == nextGlobalActive(globalActive, t)
           to == afterReplayStep(ok, idx, Len(sortedTabs), ga)
           lg == IF ok THEN Append(log, Opened(idx, t.uri, TRUE, FALSE))
                 ELSE log \o <<Opened(idx, t.uri, FALSE, FALSE), Warn("Failed to open file")>>
       IN /\ groups' = IF ok THEN after.groups ELSE groups
          /\ activeGroup' = IF ok THEN after.activeGroup ELSE activeGroup
          /\ SetEars(IF ok THEN ReplayEars(Shown(Ears, groups, after.groups, uri), t)
                     ELSE Ears)
          /\ globalActive' = ga
          /\ idx' = idx + 1
          /\ pc' = to
          /\ log' = IF to = "done" THEN Append(lg, Info("Restored session")) ELSE lg
    /\ UNCHANGED <<dirty, missing, fs, configVars, cmd, entry, sessionData, currentTabs,
                   sortedTabs, saveVars, start, ncmds>>

RestoreFocused ==
    /\ pc = "r_focus"
    /\ LET t == The(globalActive)
           uri == UriParse(t.uri)
           ok == uri \notin missing
           after == HostShow(groups, activeGroup, uri, ViewColumnOf(t), FALSE)
       IN /\ groups' = IF ok THEN after.groups ELSE groups
          /\ activeGroup' = IF ok THEN after.activeGroup ELSE activeGroup
          /\ SetEars(IF ok THEN ReplayEars(Shown(Ears, groups, after.groups, uri), t)
                     ELSE Ears)
          /\ log' = log \o <<Opened(0, t.uri, ok, TRUE), Info("Restored session")>>
    /\ pc' = "done"
    /\ UNCHANGED <<dirty, missing, fs, configVars, cmd, entry, restoreVars, saveVars,
                   start, ncmds>>

RestoreEngine ==
    \/ RestoreRead
    \/ RestoreAnswer
    \/ RestoreTabClosed
    \/ RestoreCloseAllDone
    \/ RestoreOpened
    \/ RestoreFocused

-----------------------------------------------------------------------------
(* Initial states.                                                         *)

(* Folders of the machine, and the session directory under a base folder:  *)
(* path.join(base, '.vscode', 'sessions') in workspace mode, else          *)
(* path.join(base, 'sessions').                                            *)
NoFolder      == ""
OpenFolder    == "/ws"
GlobalStorage == "/globalStorage"
PickableFolders == {"/data", GlobalStorage, OpenFolder \o "/.vscode"}

(* a configured folder that is no longer on disk, and fs.existsSync on the *)
(* folders above                                                           *)
RemovedFolder == "/removed"
existsSync(folder) == folder \in {OpenFolder} \cup PickableFolders

SessionFolder(location, basePath) ==
    IF location = "workspace" THEN basePath \o "/.vscode/sessions"
    ELSE basePath \o "/sessions"

GlobalDir    == SessionFolder("global", GlobalStorage)
WorkspaceDir == SessionFolder("workspace", OpenFolder)
CustomDir    == SessionFolder("custom", "/data")

Dirs      == {WorkspaceDir, GlobalDir, CustomDir}
JsonNames == {"s1.json", "S2.json", "session-ts.json"}
FileNames == JsonNames \cup {"notes.txt"}
DirNode   == "."
EmptyFs   == [d \in Dirs |-> [f \in FileNames \cup {DirNode} |-> FileAbsent]]

(* file.endsWith('.json') and path.basename(file, '.json') on the names above *)
EndsWithJson(file) == file \in JsonNames
Basename(file) ==
    IF file = "s1.json" THEN "s1"
    ELSE IF file = "S2.json" THEN "S2"
    ELSE IF file = "session-ts.json" THEN "session-ts"
    ELSE file

(* ensureDirectory, and a file put in a directory that exists then *)
Directory == [tag |-> "dir"]
MkDir(f, dir) == [f EXCEPT ![dir][DirNode] = Directory]
WithFile(f, dir, file, content) == [MkDir(f, dir) EXCEPT ![dir][file] = content]
DirExists(dir) == dir \in Dirs /\ fs[dir][DirNode] # FileAbsent

NoEntry == [name |-> "", fullPath |-> [dir |-> "", file |-> ""]]
EntryOf(dir, file) == [name |-> Basename(file), fullPath |-> [dir |-> dir, file |-> file]]

JsonFile(tabs) ==
    [tag |-> "json",
     value |-> [type |-> "object",
                version |-> [t |-> "number", v |-> SESSION_FILE_VERSION],
                tabs |-> [t |-> "array", v |-> tabs]]]

SeqsUpTo(S, n) == UNION {[1..k -> S] : k \in 0..n}
SeqsNoDupUpTo(S, n) == UNION {SeqsNoDup(S, k) : k \in 0..n}

(* everything but the editor, the files, the running command and the     *)
(* session it has loaded                                                   *)
InitCommand ==
    /\ currentTabs = <<>>
    /\ idx = 0
    /\ sortedTabs = <<>>
    /\ globalActive = None
    /\ snapshot = None
    /\ sessionName = ""
    /\ ncmds = 0
    /\ log = <<>>

(* nothing recorded yet, and notifications handed over at once *)
InitLocals ==
    /\ tracker = EmptyMap
    /\ caret = NewCarets
    /\ inbox = <<>>
    /\ heard = NothingHeard
    /\ deferred = FALSE
    /\ InitCommand

InitRest ==
    /\ InitLocals
    /\ fileLocation = "global"
    /\ saveBehavior = "ask"
    /\ hasWorkspace = TRUE
    /\ customFolder = NoFolder
    /\ workspaceFolder = NoFolder

-----------------------------------------------------------------------------
(* Storage locator.                                                        *)

(* resolveWorkspaceBase: the stored folder, else the open folder, which is *)
(* then stored; the base path or unresolved, the setting afterwards, and   *)
(* the warning shown.                                                      *)
resolveWorkspaceBaseNoOpenCheck(promptUser) ==
    IF workspaceFolder # NoFolder /\ existsSync(workspaceFolder)
    THEN [base |-> Some(workspaceFolder), stored |-> workspaceFolder, warn |-> <<>>]
    ELSE [base |-> Some(OpenFolder), stored |-> OpenFolder, warn |-> <<>>]

resolveWorkspaceBase(promptUser) ==
    IF workspaceFolder # NoFolder /\ existsSync(workspaceFolder)
    THEN [base |-> Some(workspaceFolder), stored |-> workspaceFolder, warn |-> <<>>]
    ELSE IF ~hasWorkspace
    THEN [base |-> None, stored |-> workspaceFolder,
          warn |-> <<Warn("No workspace folder is open.")>>]
    ELSE [base |-> Some(OpenFolder), stored |-> OpenFolder, warn |-> <<>>]

(* resolveCustomBase: the stored folder, else the folder picked in the     *)
(* dialog when prompting is allowed, which is then stored.                 *)
resolveCustomBase(promptUser, picked) ==
    IF customFolder # NoFolder /\ existsSync(customFolder)
    THEN [base |-> Some(customFolder), stored |-> customFolder, warn |-> <<>>]
    ELSE IF ~promptUser
    THEN [base |-> None, stored |-> customFolder,
          warn |-> <<Warn("Custom session folder is not configured.")>>]
    ELSE IF picked = NoFolder
    THEN [base |-> None, stored |-> customFolder, warn |-> <<>>]
    ELSE [base |-> Some(picked), stored |-> picked, warn |-> <<>>]

LocateGlobalOnly(promptUser, picked) ==
    [dir |-> Some(SessionFolder("global", GlobalStorage)),
     workspaceFolder |-> workspaceFolder, customFolder |-> customFolder, warn |-> <<>>]

(* resolveSessionDirectory without ensureExists: the session directory of  *)
(* the current mode or unresolved, the two folder settings afterwards, and *)
(* the warning shown.  `picked` is the answer of the folder dialog.        *)
Locate(promptUser, picked) ==
    LET ws == resolveWorkspaceBase(promptUser)
        cu == resolveCustomBase(promptUser, picked)
        basePath == IF fileLocation = "global" THEN Some(GlobalStorage)
                    ELSE IF fileLocation = "workspace" THEN ws.base
                    ELSE cu.base
    IN [dir |-> IF basePath = None THEN None
                ELSE Some(SessionFolder(fileLocation, The(basePath))),
        workspaceFolder |-> IF fileLocation = "workspace" THEN ws.stored ELSE workspaceFolder,
        customFolder |-> IF fileLocation = "custom" THEN cu.stored ELSE customFolder,
        warn |-> IF fileLocation = "workspace" THEN ws.warn
                 ELSE IF fileLocation = "custom" THEN cu.warn
                 ELSE <<>>]

resolveSessionDirectory(promptUser, picked) == Locate(promptUser, picked).dir

DialogAnswers(promptUser) ==
    IF fileLocation = "custom" /\ ~existsSync(customFolder) /\ promptUser
    THEN {NoFolder} \cup PickableFolders ELSE {NoFolder}

Exists(path) == path.dir \in Dirs /\ path.file \in FileNames /\ FileAt(path) # FileAbsent

(* a.name.localeCompare(b.name, undefined, {sensitivity: 'base'}) on the   *)
(* names above: by character, letters compared without case                *)
CharCodes(name) ==
    IF name = "s1" THEN <<115, 49>>
    ELSE IF name = "S2" THEN <<83, 50>>
    ELSE <<115, 101, 115, 115, 105, 111, 110, 45, 116, 115>>

BaseLetter(c) == IF c \in 65..90 THEN c + 32 ELSE c

RECURSIVE LexCompare(_, _, _)
LexCompare(a, b, fold) ==
    IF a = <<>> /\ b = <<>> THEN 0
    ELSE IF a = <<>> THEN -1
    ELSE IF b = <<>> THEN 1
    ELSE LET x == IF fold THEN BaseLetter(Head(a)) ELSE Head(a)
             y == IF fold THEN BaseLetter(Head(b)) ELSE Head(b)
         IN IF x < y THEN -1
            ELSE IF x > y THEN 1
            ELSE LexCompare(Tail(a), Tail(b), fold)

localeCompareExact(a, b) == LexCompare(CharCodes(a), CharCodes(b), FALSE)

localeCompare(a, b) == LexCompare(CharCodes(a), CharCodes(b), TRUE)

RECURSIVE SortEntries(_)
SortEntries(S) ==
    IF S = {} THEN <<>>
    ELSE LET first == CHOOSE e \in S : \A o \in S : localeCompare(e.name, o.name) <= 0
         IN <<first>> \o SortEntries(S \ {first})

(* listSessions: the records of the .json files of the resolved directory, *)
(* sorted by name; none when it is unresolved or does not exist            *)
listSessions ==
    LET d == resolveSessionDirectory(FALSE, NoFolder) IN
    IF d = None \/ ~DirExists(The(d)) THEN <<>>
    ELSE SortEntries({EntryOf(The(d), f) :
                         f \in {g \in FileNames : EndsWithJson(g) /\ fs[The(d)][g] # FileAbsent}})

(* the folder settings after a command has resolved its entry: the lookup  *)
(* of a name and the listing of the picker resolve the directory           *)
AfterEntry(arg) ==
    IF arg.kind = "record" /\ Exists(arg.entry.fullPath) THEN workspaceFolder
    ELSE Locate(FALSE, NoFolder).workspaceFolder

(* The argument of a command: none, a record (from the sidebar), a name.   *)
NoArg == [kind |-> "none"]
CommandArgs ==
    {NoArg}
    \cup {[kind |-> "record", entry |-> EntryOf(d, f)] : d \in Dirs, f \in JsonNames}
    \cup {[kind |-> "name", name |-> "s1"]}

entryFromArgument(arg) ==
    IF arg.kind = "none" THEN None
    ELSE IF arg.kind = "record"
    THEN IF Exists(arg.entry.fullPath) THEN Some(arg.entry) ELSE None
    ELSE LET d == resolveSessionDirectory(FALSE, NoFolder)
             file == arg.name \o ".json"
         IN IF d # None /\ Exists([dir |-> The(d), file |-> file])
            THEN Some(EntryOf(The(d), file)) ELSE None

(* what the session picker can return: a listed record, or nothing *)
QuickPicks == {None} \cup {Some(listSessions[i]) : i \in 1..Len(listSessions)}

(* entryFromArgument, then pickSessionEntry when that gave nothing *)
resolveEntry(arg, pick) ==
    IF entryFromArgument(arg) # None THEN entryFromArgument(arg)
    ELSE IF listSessions = <<>> THEN None ELSE pick

(* the warnings of entryFromArgument and of pickSessionEntry, whose       *)
(* listing resolves the directory with showWarning and without prompting *)
UnresolvedWarning == Locate(FALSE, NoFolder).warn

EntryWarnings(arg) ==
    IF entryFromArgument(arg) # None THEN <<>>
    ELSE (IF arg.kind # "none" THEN <<Warn("Session file not found")>> ELSE <<>>)
         \o UnresolvedWarning
         \o (IF listSessions = <<>> THEN <<Warn("No sessions found.")>> ELSE <<>>)

Wrote(path) == [ev |-> "write", dir |-> path.dir, file |-> path.file]
Asked(what) == [ev |-> "ask", what |-> what]
Answered(what, c) == [ev |-> "answer", what |-> what, choice |-> c]

(* what a command shows while it resolves its entry: the warnings, and the *)
(* session picker with the user's pick or dismissal                        *)
EntryLog(arg, pick) ==
    EntryWarnings(arg)
    \o (IF entryFromArgument(arg) = None /\ listSessions # <<>>
        THEN <<Asked("pick"), Answered("pick", IF pick = None THEN "undefined" ELSE "picked")>>
        ELSE <<>>)

TIMESTAMP_NAME == "session-ts"
(* the input box: a typed name, an empty submit, or a dismissal (undefined) *)
NameInputs == {Some("s1"), Some(""), None}

(* lines 534-536: an empty or dismissed input gives the timestamped name *)
nameOrTimestamp(input) ==
    IF input = None \/ input = Some("") THEN TIMESTAMP_NAME ELSE The(input)

NameAnswer(input) == Answered("name", IF input = None THEN "undefined" ELSE "entered")

-----------------------------------------------------------------------------
(* Command layer.  A command starts when none runs; its handler ends in    *)
(* pc = "done", and Return gives the window back.                          *)

MaxCommands == 2

Begin(c) ==
    /\ pc = "idle"
    /\ ncmds < MaxCommands
    /\ ncmds' = ncmds + 1
    /\ cmd' = c
    /\ start' = [groups |-> groups, fs |-> fs]

Return ==
    /\ pc = "done"
    /\ pc' = "idle"
    /\ log' = <<>>
    /\ entry' = NoEntry
    /\ sessionData' = NoSession
    /\ currentTabs' = <<>>
    /\ idx' = 0
    /\ sortedTabs' = <<>>
    /\ globalActive' = None
    /\ snapshot' = None
    /\ sessionName' = ""
    /\ UNCHANGED <<editorVars, fs, configVars, cmd, start, ncmds>>

(* ---- session-saver.saveSession ---- *)

SaveStart ==
    /\ Begin("save")
    /\ pc' = "s_name"
    /\ log' = <<Asked("name")>>
    /\ UNCHANGED <<editorVars, fs, configVars, entry, restoreVars, saveVars>>

SaveNamed ==
    /\ pc = "s_name"
    /\ \E input \in NameInputs :
         LET snap == createSessionSnapshot(groups, activeGroup, tracker) IN
         /\ sessionName' = nameOrTimestamp(input)
         /\ snapshot' = Some(snap)
         /\ IF Len(snap.tabs) = 0
            THEN /\ log' = log \o <<NameAnswer(input), Info("No supported tabs to save.")>>
                 /\ pc' = "done"
            ELSE /\ log' = Append(log, NameAnswer(input))
                 /\ pc' = "s_write"
    /\ UNCHANGED <<editorVars, fs, configVars, cmd, entry, restoreVars, start, ncmds>>

(* the write of a snapshot under a name in the resolved directory, shared  *)
(* by save-session and the save branch of restore-named-session            *)
WriteSnapshot(picked, next) ==
    LET loc == Locate(TRUE, picked)
        d == loc.dir
    IN
    /\ customFolder' = loc.customFolder
    /\ workspaceFolder' = loc.workspaceFolder
    /\ IF d = None
       THEN /\ fs' = fs
            /\ log' = log \o loc.warn
            /\ pc' = "done"
       ELSE LET path == [dir |-> The(d), file |-> sessionName \o ".json"] IN
            /\ fs' = WithFile(fs, path.dir, path.file, JsonStringify(The(snapshot)))
            /\ log' = log \o <<Wrote(path), Info("Session saved")>>
            /\ pc' = next

SaveWrite ==
    /\ pc = "s_write"
    /\ \E picked \in DialogAnswers(TRUE) : WriteSnapshot(picked, "done")
    /\ UNCHANGED <<editorVars, fileLocation, saveBehavior, hasWorkspace, cmd, entry,
                   restoreVars, saveVars, start, ncmds>>

(* ---- session-saver.restoreSession ---- *)

RestoreStart ==
    /\ Begin("restore")
    /\ \E pick \in QuickPicks :
         LET e == resolveEntry(NoArg, pick) IN
         /\ entry' = IF e = None THEN NoEntry ELSE The(e)
         /\ pc' = IF e = None THEN "done" ELSE "r_read"
         /\ log' = EntryLog(NoArg, pick)
    /\ workspaceFolder' = AfterEntry(NoArg)
    /\ UNCHANGED <<editorVars, fs, settingVars, customFolder, restoreVars, saveVars>>

(* ---- session-saver.restoreNamedSession ---- *)

SaveBehaviorSettings == {"ask", "yes - save and continue", "no - just switch"}

getAutoSaveBehavior ==
    IF saveBehavior = "yes - save and continue" THEN "yes"
    ELSE IF saveBehavior = "no - just switch" THEN "no"
    ELSE "ask"

TextDocuments(gs) ==
    OpenDocs(gs) \cup {t.input.original : t \in {x \in TabsOf(gs) : x.input.kind = "diff"}}

hasOpenFiles == \E u \in TextDocuments(groups) : u.scheme # "untitled"
unsavedDocs  == {u \in dirty : u.scheme # "untitled"}

(* lines 618-627: snapshot, nothing-to-save check, name prompt *)
NamedSaveBranch(lg) ==
    LET snap == createSessionSnapshot(groups, activeGroup, tracker) IN
    /\ snapshot' = Some(snap)
    /\ IF Len(snap.tabs) = 0
       THEN /\ log' = Append(lg, Info("No supported tabs to save."))
            /\ pc' = "done"
       ELSE /\ log' = Append(lg, Asked("name"))
            /\ pc' = "n_name"

NamedChoiceNoSwitches(finalChoice, lg) ==
    IF finalChoice \in {"Cancel", "undefined", "No"}
    THEN /\ pc' = "done"
         /\ log' = lg
         /\ snapshot' = snapshot
    ELSE IF unsavedDocs # {}
    THEN /\ pc' = "n_unsaved"
         /\ log' = Append(lg, Asked("unsaved"))
         /\ snapshot' = snapshot
    ELSE NamedSaveBranch(lg)

(* lines 599-645: what follows the save-behaviour choice *)
NamedChoice(finalChoice, lg) ==
    IF finalChoice \in {"Cancel", "undefined"}
    THEN /\ pc' = "done"
         /\ log' = lg
         /\ snapshot' = snapshot
    ELSE IF finalChoice = "Yes"
    THEN IF unsavedDocs # {}
         THEN /\ pc' = "n_unsaved"
              /\ log' = Append(lg, Asked("unsaved"))
              /\ snapshot' = snapshot
         ELSE NamedSaveBranch(lg)
    ELSE /\ pc' = "r_read"
         /\ log' = lg
         /\ snapshot' = snapshot

NamedStart ==
    /\ Begin("restoreNamed")
    /\ \E arg \in CommandArgs, pick \in QuickPicks :
         LET e == resolveEntry(arg, pick)
             lg == EntryLog(arg, pick)
         IN /\ entry' = IF e = None THEN NoEntry ELSE The(e)
            /\ IF e = None
               THEN /\ pc' = "done"
                    /\ log' = lg
                    /\ snapshot' = snapshot
               ELSE IF hasOpenFiles
               THEN IF getAutoSaveBehavior = "ask"
                    THEN /\ pc' = "n_ask"
                         /\ log' = Append(lg, Asked("save"))
                         /\ snapshot' = snapshot
                    ELSE NamedChoice(IF getAutoSaveBehavior = "yes" THEN "Yes" ELSE "No", lg)
               ELSE /\ pc' = "r_read"
                    /\ log' = lg
                    /\ snapshot' = snapshot
            /\ workspaceFolder' = AfterEntry(arg)
    /\ UNCHANGED <<editorVars, fs, settingVars, customFolder, restoreVars, sessionName>>

SaveChoices == {"Yes", "No", "Cancel", "undefined"}

NamedAsked ==
    /\ pc = "n_ask"
    /\ \E c \in SaveChoices : NamedChoice(c, Append(log, Answered("save", c)))
    /\ UNCHANGED <<editorVars, fs, configVars, cmd, entry, restoreVars, sessionName,
                   start, ncmds>>

UnsavedChoices == {"Save and Continue", "Continue Without Saving", "Cancel", "undefined"}

NamedUnsaved ==
    /\ pc = "n_unsaved"
    /\ \E c \in UnsavedChoices :
         IF c = "Cancel"
         THEN /\ pc' = "done"
              /\ log' = Append(log, Answered("unsaved", c))
              /\ UNCHANGED <<dirty, snapshot>>
         ELSE /\ dirty' = IF c = "Save and Continue" THEN {} ELSE dirty
              /\ NamedSaveBranch(Append(log, Answered("unsaved", c)))
    /\ UNCHANGED <<groups, activeGroup, trackVars, missing, fs, configVars, cmd, entry,
                   restoreVars, sessionName, start, ncmds>>

NamedNamed ==
    /\ pc = "n_name"
    /\ \E input \in NameInputs :
         /\ sessionName' = nameOrTimestamp(input)
         /\ log' = Append(log, NameAnswer(input))
    /\ pc' = "n_write"
    /\ UNCHANGED <<editorVars, fs, configVars, cmd, entry, restoreVars, snapshot,
                   start, ncmds>>

NamedWrite ==
    /\ pc = "n_write"
    /\ \E picked \in DialogAnswers(TRUE) : WriteSnapshot(picked, "r_read")
    /\ UNCHANGED <<editorVars, fileLocation, saveBehavior, hasWorkspace, cmd, entry,
                   restoreVars, saveVars, start, ncmds>>

(* ---- session-saver.overwriteSession ---- *)

OverwriteWriteAlways(lg) ==
    LET snap == createSessionSnapshot(groups, activeGroup, tracker) IN
    /\ snapshot' = Some(snap)
    /\ pc' = "done"
    /\ log' = lg \o <<Wrote(entry.fullPath), Info("Session overwritten")>>
    /\ fs' = [fs EXCEPT ![entry.fullPath.dir][entry.fullPath.file] = JsonStringify(snap)]

(* lines 718-727: snapshot, nothing-to-save check, write over the entry *)
OverwriteWrite(lg) ==
    LET snap == createSessionSnapshot(groups, activeGroup, tracker) IN
    /\ snapshot' = Some(snap)
    /\ pc' = "done"
    /\ IF Len(snap.tabs) = 0
       THEN /\ log' = Append(lg, Info("No supported tabs to save."))
            /\ fs' = fs
       ELSE /\ log' = lg \o <<Wrote(entry.fullPath), Info("Session overwritten")>>
            /\ fs' = WithFile(fs, entry.fullPath.dir, entry.fullPath.file,
                            JsonStringify(snap))

OverwriteStart ==
    /\ Begin("overwrite")
    /\ \E arg \in CommandArgs, pick \in QuickPicks :
         LET e == resolveEntry(arg, pick) IN
         /\ entry' = IF e = None THEN NoEntry ELSE The(e)
         /\ pc' = IF e = None THEN "done" ELSE "o_confirm"
         /\ log' = IF e = None THEN EntryLog(arg, pick)
                   ELSE Append(EntryLog(arg, pick), Asked("overwrite"))
         /\ workspaceFolder' = AfterEntry(arg)
    /\ UNCHANGED <<editorVars, fs, settingVars, customFolder, restoreVars, saveVars>>

OverwriteConfirmedAnyAnswer ==
    /\ pc = "o_confirm"
    /\ \E c \in {"Overwrite", "undefined"} :
         LET lg == Append(log, Answered("overwrite", c)) IN
         IF unsavedDocs # {}
         THEN /\ pc' = "o_unsaved"
              /\ log' = Append(lg, Asked("unsaved"))
              /\ UNCHANGED <<fs, snapshot>>
         ELSE OverwriteWrite(lg)
    /\ UNCHANGED <<editorVars, configVars, cmd, entry, restoreVars, sessionName,
                   start, ncmds>>

OverwriteConfirmed ==
    /\ pc = "o_confirm"
    /\ \E c \in {"Overwrite", "undefined"} :
         LET lg == Append(log, Answered("overwrite", c)) IN
         IF c # "Overwrite"
         THEN /\ pc' = "done"
              /\ log' = lg
              /\ UNCHANGED <<fs, snapshot>>
         ELSE IF unsavedDocs # {}
         THEN /\ pc' = "o_unsaved"
              /\ log' = Append(lg, Asked("unsaved"))
              /\ UNCHANGED <<fs, snapshot>>
         ELSE OverwriteWrite(lg)
    /\ UNCHANGED <<editorVars, configVars, cmd, entry, restoreVars, sessionName,
                   start, ncmds>>

OverwriteUnsaved ==
    /\ pc = "o_unsaved"
    /\ \E c \in UnsavedChoices :
         IF c = "Cancel"
         THEN /\ pc' = "done"
              /\ log' = Append(log, Answered("unsaved", c))
              /\ UNCHANGED <<dirty, fs, snapshot>>
         ELSE /\ dirty' = IF c = "Save and Continue" THEN {} ELSE dirty
              /\ OverwriteWrite(Append(log, Answered("unsaved", c)))
    /\ UNCHANGED <<groups, activeGroup, trackVars, missing, configVars, cmd, entry,
                   restoreVars, sessionName, start, ncmds>>

(* ---- session-saver.deleteSession ---- *)

DeleteStart ==
    /\ Begin("delete")
    /\ \E arg \in CommandArgs, pick \in QuickPicks :
         LET e == resolveEntry(arg, pick) IN
         /\ entry' = IF e = None THEN NoEntry ELSE The(e)
         /\ pc' = IF e = None THEN "done" ELSE "d_confirm"
         /\ log' = IF e = None THEN EntryLog(arg, pick)
                   ELSE Append(EntryLog(arg, pick), Asked("delete"))
         /\ workspaceFolder' = AfterEntry(arg)
    /\ UNCHANGED <<editorVars, fs, settingVars, customFolder, restoreVars, saveVars>>

DeleteConfirmedAnyAnswer ==
    /\ pc = "d_confirm"
    /\ \E c \in {"Delete", "undefined"} :
         /\ log' = log \o <<Answered("delete", c), Info("Deleted session")>>
         /\ fs' = IF Exists(entry.fullPath)
                  THEN [fs EXCEPT ![entry.fullPath.dir][entry.fullPath.file] = FileAbsent]
                  ELSE fs
    /\ pc' = "done"
    /\ UNCHANGED <<editorVars, configVars, cmd, entry, restoreVars, saveVars, start, ncmds>>

DeleteConfirmed ==
    /\ pc = "d_confirm"
    /\ \E c \in {"Delete", "undefined"} :
         IF c # "Delete"
         THEN /\ log' = Append(log, Answered("delete", c))
              /\ fs' = fs
         ELSE /\ log' = log \o <<Answered("delete", c), Info("Deleted session")>>
              /\ fs' = IF Exists(entry.fullPath)
                       THEN [fs EXCEPT ![entry.fullPath.dir][entry.fullPath.file] = FileAbsent]
                       ELSE fs
    /\ pc' = "done"
    /\ UNCHANGED <<editorVars, configVars, cmd, entry, restoreVars, saveVars, start, ncmds>>

(* ---- session-saver.changeFileLocation ---- *)

Locations == {"workspace", "global", "custom"}

ChangeStart ==
    /\ Begin("changeLocation")
    /\ pc' = "c_pick"
    /\ log' = <<Asked("location")>>
    /\ UNCHANGED <<editorVars, fs, configVars, entry, restoreVars, saveVars>>

ChangeChosen ==
    /\ pc = "c_pick"
    /\ \E selection \in Locations \cup {"undefined"}, picked \in {NoFolder} \cup PickableFolders :
         LET ws == resolveWorkspaceBase(TRUE)
             cu == resolveCustomBase(TRUE, picked)
             lg == Append(log, Answered("location", selection))
         IN
         IF selection = "undefined"
         THEN /\ log' = lg
              /\ UNCHANGED <<fileLocation, workspaceFolder, customFolder>>
         ELSE IF selection = "workspace"
         THEN /\ workspaceFolder' = ws.stored
              /\ fileLocation' = IF ws.base = None THEN fileLocation ELSE "workspace"
              /\ log' = IF ws.base = None THEN lg \o ws.warn
                        ELSE Append(lg, Info("Session storage set to workspace folder"))
              /\ UNCHANGED customFolder
         ELSE IF selection = "global"
         THEN /\ fileLocation' = "global"
              /\ log' = Append(lg, Info("Session storage set to global storage."))
              /\ UNCHANGED <<workspaceFolder, customFolder>>
         ELSE /\ customFolder' = cu.stored
              /\ fileLocation' = IF cu.base = None THEN fileLocation ELSE "custom"
              /\ log' = IF cu.base = None THEN lg \o cu.warn
                        ELSE Append(lg, Info("Session storage set to custom folder"))
              /\ UNCHANGED workspaceFolder
    /\ pc' = "done"
    /\ UNCHANGED <<editorVars, fs, saveBehavior, hasWorkspace, cmd, entry, restoreVars,
                   saveVars, start, ncmds>>

(* ---- session-saver.deleteAllSessions ---- *)

AllFilesIn(f, dir) == {g \in FileNames : f[dir][g] # FileAbsent}

(* readdir(folder).filter(file => file.endsWith('.json')) *)
JsonFilesIn(f, dir) == {g \in FileNames : EndsWithJson(g) /\ f[dir][g] # FileAbsent}

UnlinkAll(f, dir, files) ==
    [f EXCEPT ![dir] = [g \in DOMAIN f[dir] |-> IF g \in files THEN FileAbsent ELSE f[dir][g]]]

DeleteAllStart ==
    /\ Begin("deleteAll")
    /\ LET loc == Locate(FALSE, NoFolder) IN
       /\ workspaceFolder' = loc.workspaceFolder
       /\ IF loc.dir = None \/ ~DirExists(The(loc.dir))
          THEN /\ log' = Append(loc.warn, Info("No session folder found."))
               /\ pc' = "done"
               /\ entry' = entry
          ELSE IF JsonFilesIn(fs, The(loc.dir)) = {}
          THEN /\ log' = <<Info("No sessions to delete.")>>
               /\ pc' = "done"
               /\ entry' = entry
          ELSE /\ log' = <<Asked("deleteAll")>>
               /\ pc' = "da_confirm"
               /\ entry' = [name |-> "", fullPath |-> [dir |-> The(loc.dir), file |-> ""]]
    /\ UNCHANGED <<editorVars, fs, settingVars, customFolder, restoreVars, saveVars>>

DeleteAllConfirmed ==
    /\ pc = "da_confirm"
    /\ \E c \in {"Delete All", "undefined"} :
         IF c # "Delete All"
         THEN /\ log' = Append(log, Answered("deleteAll", c))
              /\ fs' = fs
         ELSE /\ log' = log \o <<Answered("deleteAll", c), Info("Deleted sessions")>>
              /\ fs' = UnlinkAll(fs, entry.fullPath.dir, JsonFilesIn(fs, entry.fullPath.dir))
    /\ pc' = "done"
    /\ UNCHANGED <<editorVars, configVars, cmd, entry, restoreVars, saveVars, start, ncmds>>

Commands ==
    \/ SaveStart
    \/ SaveNamed
    \/ SaveWrite
    \/ RestoreStart
    \/ NamedStart
    \/ NamedAsked
    \/ NamedUnsaved
    \/ NamedNamed
    \/ NamedWrite
    \/ OverwriteStart
    \/ OverwriteConfirmed
    \/ OverwriteUnsaved
    \/ DeleteStart
    \/ DeleteConfirmed

-----------------------------------------------------------------------------
(* SpecSort: the replay order of restore, on every tab list of a bounded   *)
(* pool of descriptors.                                                    *)

MaxSortLen == 3

SortPool ==
    {[uri |-> u, groupIndex |-> g, tabIndex |-> t, viewColumn |-> g + 1,
      isGroupActive |-> a, isGlobalActive |-> FALSE] :
        u \in {UriToString(FileA), UriToString(FileB)},
        g \in 0..1, t \in 0..1, a \in BOOLEAN}

InitSort ==
    /\ InitRest
    /\ dirty = {}
    /\ groups = <<EmptyGroup>>
    /\ activeGroup = 1
    /\ missing = {}
    /\ fs = EmptyFs
    /\ start = [groups |-> <<EmptyGroup>>, fs |-> EmptyFs]
    /\ cmd = "restore"
    /\ entry = NoEntry
    /\ pc = "sort"
    /\ sessionData \in {[version |-> SESSION_FILE_VERSION, tabs |-> s] :
                            s \in SeqsUpTo(SortPool, MaxSortLen)}

(* lines 412-420 alone: const sortedTabs = [...sessionData.tabs].sort(...) *)
SortStep ==
    /\ pc = "sort"
    /\ sortedTabs' = sortTabs(sessionData.tabs)
    /\ pc' = "sorted"
    /\ UNCHANGED <<editorVars, fs, configVars, cmd, entry, sessionData, currentTabs,
                   idx, globalActive, saveVars, start, ncmds, log>>

NextSort == SortStep

SpecSort == InitSort /\ [][NextSort]_vars

-----------------------------------------------------------------------------
(* SpecReplay: the restore engine on every session of a bounded pool of    *)
(* descriptors, in a window with no tab to prompt for.                     *)

MaxSessionTabs == 2

ReplayPool ==
    {[uri |-> u, groupIndex |-> g, tabIndex |-> t, viewColumn |-> g + 1,
      isGroupActive |-> a, isGlobalActive |-> ga] :
        u \in {UriToString(FileA), UriToString(FileB)},
        g \in 0..1, t \in 0..1, a \in BOOLEAN, ga \in BOOLEAN}

InitReplay ==
    /\ InitRest
    /\ dirty = {}
    /\ groups = <<EmptyGroup>>
    /\ activeGroup = 1
    /\ missing \in {{}, {FileB}}
    /\ \E tabs \in SeqsNoDupUpTo(ReplayPool, MaxSessionTabs) :
         fs = WithFile(EmptyFs, GlobalDir, "s1.json", JsonFile(tabs))
    /\ start = [groups |-> groups, fs |-> fs]
    /\ sessionData = NoSession
    /\ cmd = "restore"
    /\ entry = EntryOf(GlobalDir, "s1.json")
    /\ pc = "r_read"

NextReplay ==
    \/ RestoreRead
    \/ RestoreCloseAllDone
    \/ RestoreOpened
    \/ RestoreFocused

SpecReplay == InitReplay /\ [][NextReplay]_vars

-----------------------------------------------------------------------------
(* SpecEdited: the restore engine on session files written by hand, whose  *)
(* uri strings need not be the string of any uri.                          *)

EditedPool ==
    {[uri |-> u, groupIndex |-> g, tabIndex |-> 0, viewColumn |-> g + 1,
      isGroupActive |-> a, isGlobalActive |-> ga] :
        u \in {UriToString(FileA), Unparseable},
        g \in 0..1, a \in BOOLEAN, ga \in BOOLEAN}

InitEdited ==
    /\ InitRest
    /\ dirty = {}
    /\ groups = <<EmptyGroup>>
    /\ activeGroup = 1
    /\ missing \in {{}, {FileA}}
    /\ \E tabs \in SeqsNoDupUpTo(EditedPool, MaxSessionTabs) :
         fs = WithFile(EmptyFs, GlobalDir, "s1.json", JsonFile(tabs))
    /\ start = [groups |-> groups, fs |-> fs]
    /\ sessionData = NoSession
    /\ cmd = "restore"
    /\ entry = EntryOf(GlobalDir, "s1.json")
    /\ pc = "r_read"

NextEdited == NextReplay

SpecEdited == InitEdited /\ [][NextEdited]_vars

-----------------------------------------------------------------------------
(* SpecPrompt: the restore engine on two saved sessions, in every window   *)
(* of a bounded number of tabs.                                            *)

MaxOpenTabs == 3

WithIds(s, base) == [i \in 1..Len(s) |-> [id |-> base + i, input |-> s[i]]]
ActiveIn(s) == IF Len(s) = 0 THEN {0} ELSE 1..Len(s)

(* the windows of at most n tabs, in one or two groups, over the inputs U *)
Layouts(U, n) ==
    LET nonEmpty == {t \in SeqsNoDupUpTo(U, n - 1) : Len(t) >= 1}
        one == UNION {{<<[tabs |-> WithIds(s, 0), active |-> a]>> : a \in ActiveIn(s)} :
                      s \in SeqsNoDupUpTo(U, n)}
        two == UNION {UNION {{<<[tabs |-> WithIds(s1, 0), active |-> a1],
                                [tabs |-> WithIds(s2, Len(s1)), active |-> a2]>> :
                                  a1 \in ActiveIn(s1), a2 \in ActiveIn(s2)} :
                             s2 \in {t \in nonEmpty : Len(s1) + Len(t) <= n}} :
                      s1 \in nonEmpty}
    IN one \cup two

PromptInputs ==
    {TextInput(FileA), TextInput(FileB), TextInput(FileC), DiffInput(GitA, FileC),
     TextInput(Untitled1), OtherInput}

Descriptor(u, g, t, a, ga) ==
    [uri |-> UriToString(u), groupIndex |-> g, tabIndex |-> t, viewColumn |-> g + 1,
     isGroupActive |-> a, isGlobalActive |-> ga]

SavedA  == <<Descriptor(FileA, 0, 0, TRUE, TRUE)>>
SavedAB == <<Descriptor(FileA, 0, 0, FALSE, FALSE), Descriptor(FileB, 0, 1, TRUE, TRUE)>>

InitPrompt ==
    /\ InitRest
    /\ groups \in Layouts(PromptInputs, MaxOpenTabs)
    /\ activeGroup \in 1..Len(groups)
    /\ dirty \in {{}, {FileC} \cap OpenDocs(groups)}
    /\ missing = {}
    /\ \E tabs \in {SavedA, SavedAB} :
         fs = WithFile(EmptyFs, GlobalDir, "s1.json", JsonFile(tabs))
    /\ start = [groups |-> groups, fs |-> fs]
    /\ sessionData = NoSession
    /\ cmd = "restore"
    /\ entry = EntryOf(GlobalDir, "s1.json")
    /\ pc = "r_read"

NextPrompt == RestoreEngine

SpecPrompt == InitPrompt /\ [][NextPrompt]_vars

-----------------------------------------------------------------------------
(* Spec: the commands, one after the other, from every small window, on    *)
(* global storage with the default save behaviour.                         *)

MainTabs == 2

MainLayouts ==
    Layouts({TextInput(FileA), TextInput(FileB)}, MainTabs)
    \cup {<<[tabs |-> WithIds(<<TextInput(GitA)>>, 0), active |-> 1]>>}

Init ==
    /\ InitRest
    /\ groups \in MainLayouts
    /\ activeGroup \in 1..Len(groups)
    /\ dirty \in {{}, {FileA} \cap OpenDocs(groups)}
    /\ missing = {}
    /\ fs \in {EmptyFs, WithFile(EmptyFs, GlobalDir, "s1.json", JsonFile(SavedA))}
    /\ start = [groups |-> groups, fs |-> fs]
    /\ sessionData = NoSession
    /\ cmd = "none"
    /\ entry = NoEntry
    /\ pc = "idle"

Next ==
    \/ Commands
    \/ RestoreEngine
    \/ Return

Spec == Init /\ [][Next]_vars

-----------------------------------------------------------------------------
(* SpecNamed: restore-named-session under every save behaviour, with and   *)
(* without unsaved documents and a resolvable storage directory.           *)

NamedLayouts ==
    {<<EmptyGroup>>,
     <<[tabs |-> WithIds(<<TextInput(FileA)>>, 0), active |-> 1]>>,
     <<[tabs |-> WithIds(<<TextInput(FileB), TextInput(FileC)>>, 0), active |-> 2]>>,
     <<[tabs |-> WithIds(<<TextInput(GitA)>>, 0), active |-> 1]>>,
     <<[tabs |-> WithIds(<<TextInput(Untitled1)>>, 0), active |-> 1]>>}

InitNamed ==
    /\ InitLocals
    /\ saveBehavior \in SaveBehaviorSettings
    /\ \/ fileLocation = "global" /\ hasWorkspace = TRUE
       \/ fileLocation = "workspace" /\ hasWorkspace = FALSE
    /\ customFolder = NoFolder
    /\ workspaceFolder = NoFolder
    /\ groups \in NamedLayouts
    /\ activeGroup = 1
    /\ dirty \in {{}, {FileA, FileB} \cap OpenDocs(groups)}
    /\ missing = {}
    /\ fs = WithFile(EmptyFs, GlobalDir, "s1.json", JsonFile(SavedA))
    /\ start = [groups |-> groups, fs |-> fs]
    /\ sessionData = NoSession
    /\ cmd = "none"
    /\ entry = NoEntry
    /\ pc = "idle"

NextNamed ==
    \/ NamedStart
    \/ NamedAsked
    \/ NamedUnsaved
    \/ NamedNamed
    \/ NamedWrite
    \/ RestoreEngine
    \/ Return

SpecNamed == InitNamed /\ [][NextNamed]_vars

-----------------------------------------------------------------------------
(* SpecSave: save-session from windows that mix text, diff, merge and      *)
(* other tabs over file and non-file resources, with and without recorded  *)
(* cursors.                                                                *)

MaxSaveTabs == 2

SaveInputs ==
    {TextInput(FileA), TextInput(GitA), TextInput(Untitled1), DiffInput(GitA, FileA),
     DiffInput(FileB, GitA), MergeInput(Some(FileC)), MergeInput(None), OtherInput}

InitSave ==
    /\ InitLocals
    /\ fileLocation = "global"
    /\ saveBehavior = "ask"
    /\ hasWorkspace = TRUE
    /\ customFolder = NoFolder
    /\ workspaceFolder = NoFolder
    /\ groups \in Layouts(SaveInputs, MaxSaveTabs)
    /\ activeGroup \in 1..Len(groups)
    /\ dirty = {}
    /\ missing = {}
    /\ fs = EmptyFs
    /\ start = [groups |-> groups, fs |-> fs]
    /\ sessionData = NoSession
    /\ cmd = "none"
    /\ entry = NoEntry
    /\ pc = "idle"

(* a cursor move in an open file-scheme text editor, reported by the host  *)
(* to the selection listener                                               *)
CursorMoved ==
    /\ pc = "idle"
    /\ Cardinality(DOMAIN tracker) < 1
    /\ \E u \in {d \in OpenDocs(groups) : d.scheme = "file"}, p \in Positions :
         SetEars(Notified(Ears, <<SelectionChanged(UriToString(u), p)>>))
    /\ UNCHANGED <<groups, activeGroup, dirty, missing, fs, configVars, pc, cmd, entry,
                   restoreVars, saveVars, start, ncmds, log>>

NextSave ==
    \/ CursorMoved
    \/ SaveStart
    \/ SaveNamed
    \/ SaveWrite
    \/ Return

SpecSave == InitSave /\ [][NextSave]_vars

-----------------------------------------------------------------------------
(* SpecLoad: restore of a session file of every shape: written by a save,  *)
(* with a missing or non-numeric version, with missing or non-array tabs,  *)
(* a JSON value that is no object, text that is no JSON, an unreadable     *)
(* file, no file.                                                          *)

MaxLoadTabs == 2

(* JSON.parse of an object with the given version and tabs members *)
JsonObject(version, tabs) ==
    [tag |-> "json", value |-> [type |-> "object", version |-> version, tabs |-> tabs]]

VersionMembers == {[t |-> "number", v |-> SESSION_FILE_VERSION], [t |-> "string"], [t |-> "absent"]}

LoadTabLists == {<<>>, SavedA, SavedAB}

TabsMembers == {[t |-> "array", v |-> tabs] : tabs \in LoadTabLists}
               \cup {[t |-> "string"], [t |-> "absent"]}

FileContents ==
    {JsonObject(v, t) : v \in VersionMembers, t \in TabsMembers}
    \cup {[tag |-> "json", value |-> [type |-> ty]] : ty \in {"null", "number", "array"}}
    \cup {[tag |-> "text"], [tag |-> "unreadable"], FileAbsent}

InitLoad ==
    /\ InitRest
    /\ groups \in Layouts({TextInput(FileA), TextInput(FileC)}, MaxLoadTabs)
    /\ activeGroup \in 1..Len(groups)
    /\ dirty = {}
    /\ missing = {}
    /\ \E content \in FileContents :
         fs = WithFile(EmptyFs, GlobalDir, "s1.json", content)
    /\ start = [groups |-> groups, fs |-> fs]
    /\ sessionData = NoSession
    /\ cmd = "restore"
    /\ entry = EntryOf(GlobalDir, "s1.json")
    /\ pc = "r_read"

NextLoad == RestoreEngine

SpecLoad == InitLoad /\ [][NextLoad]_vars

-----------------------------------------------------------------------------
(* Session directories that are missing, empty, or hold sessions and other *)
(* files.                                                                  *)

TextFile == [tag |-> "text"]

RECURSIVE PutAll(_, _, _)
PutAll(f, dir, files) ==
    IF files = {} THEN f
    ELSE LET g == CHOOSE x \in files : TRUE
         IN PutAll(WithFile(f, dir, g, IF EndsWithJson(g) THEN JsonFile(SavedA) ELSE TextFile),
                   dir, files \ {g})

DirContents ==
    {{}, {"S2.json", "notes.txt"}, {"s1.json", "S2.json", "session-ts.json", "notes.txt"}}

StoreFs(globals, workspaces, customs) ==
    {PutAll(PutAll(PutAll(base, GlobalDir, g), WorkspaceDir, w), CustomDir, c) :
        g \in globals, w \in workspaces, c \in customs,
        base \in {EmptyFs, MkDir(EmptyFs, GlobalDir)}}

InitStore ==
    /\ InitLocals
    /\ saveBehavior = "ask"
    /\ groups = <<[tabs |-> WithIds(<<TextInput(FileB)>>, 0), active |-> 1]>>
    /\ activeGroup = 1
    /\ dirty = {}
    /\ missing = {}
    /\ start = [groups |-> groups, fs |-> fs]
    /\ sessionData = NoSession
    /\ cmd = "none"
    /\ entry = NoEntry
    /\ pc = "idle"

-----------------------------------------------------------------------------
(* SpecDelete: delete-session and delete-all-sessions in every storage     *)
(* mode.                                                                   *)

InitDelete ==
    /\ fileLocation \in Locations
    /\ hasWorkspace = TRUE
    /\ workspaceFolder = NoFolder
    /\ customFolder \in {NoFolder, "/data", GlobalStorage}
    /\ fs \in StoreFs(DirContents, DirContents, DirContents)
    /\ InitStore

NextDelete ==
    \/ DeleteStart
    \/ DeleteConfirmed
    \/ DeleteAllStart
    \/ DeleteAllConfirmed
    \/ Return

SpecDelete == InitDelete /\ [][NextDelete]_vars

-----------------------------------------------------------------------------
(* SpecMode: save-session and change-file-location from every storage      *)
(* mode, with and without an open folder and stored folders.               *)

InitMode ==
    /\ fileLocation \in Locations
    /\ hasWorkspace \in BOOLEAN
    /\ workspaceFolder \in {NoFolder, OpenFolder}
    /\ customFolder \in {NoFolder, RemovedFolder} \cup PickableFolders
    /\ fs \in StoreFs(DirContents, {{}, {"S2.json", "notes.txt"}}, {{}})
    /\ InitStore

NextMode ==
    \/ SaveStart
    \/ SaveNamed
    \/ SaveWrite
    \/ ChangeStart
    \/ ChangeChosen
    \/ Return

SpecMode == InitMode /\ [][NextMode]_vars

-----------------------------------------------------------------------------
(* SpecTracker: the restore engine and the user's cursor moves while the   *)
(* host hands its notifications over later, in the order it sent them.     *)
(* SpecNotify: the same without the user's cursor moves.                   *)

MaxInbox == 2

(* the extension is given the oldest notification of the inbox *)
NotificationDelivered ==
    /\ inbox # <<>>
    /\ LET e == Hear([tracker |-> tracker, caret |-> caret, heard |-> heard], Head(inbox))
       IN /\ tracker' = e.tracker
          /\ caret' = e.caret
          /\ heard' = e.heard
    /\ inbox' = Tail(inbox)
    /\ UNCHANGED <<groups, activeGroup, dirty, deferred, missing, fs, configVars, pc, cmd,
                   entry, restoreVars, saveVars, start, ncmds, log>>

(* the user moves the cursor in an open file, at any time *)
CaretMoved ==
    /\ Len(inbox) < MaxInbox
    /\ \E u \in {d \in OpenDocs(groups) : d.scheme = "file"}, p \in Positions :
         SetEars(Notified(Ears, <<SelectionChanged(UriToString(u), p)>>))
    /\ UNCHANGED <<groups, activeGroup, dirty, missing, fs, configVars, pc, cmd, entry,
                   restoreVars, saveVars, start, ncmds, log>>

(* SpecNamedEdit: restore-named-session with a user who moves the cursor   *)
(* in an open file while the name box is shown.                            *)
CaretMovedAtName ==
    /\ pc = "n_name"
    /\ CaretMoved

NextNamedEdit == NextNamed \/ CaretMovedAtName

SpecNamedEdit == InitNamed /\ [][NextNamedEdit]_vars

WithCursor(d, p) == [k \in DOMAIN d \cup {"cursor"} |-> IF k = "cursor" THEN p ELSE d[k]]

Moved == [line |-> 3, character |-> 7]

TrackedSessions ==
    {<<WithCursor(Descriptor(FileA, 0, 0, TRUE, TRUE), Moved)>>,
     <<WithCursor(Descriptor(FileA, 0, 0, FALSE, FALSE), Moved),
       Descriptor(FileB, 0, 1, TRUE, TRUE)>>,
     <<WithCursor(Descriptor(FileA, 0, 0, TRUE, FALSE), Origin),
       WithCursor(Descriptor(FileB, 1, 0, TRUE, TRUE), Moved)>>}

TrackedLayouts ==
    {<<EmptyGroup>>,
     <<[tabs |-> WithIds(<<TextInput(FileA)>>, 0), active |-> 1]>>,
     <<[tabs |-> WithIds(<<TextInput(FileA), TextInput(FileB)>>, 0), active |-> 2]>>,
     <<[tabs |-> WithIds(<<TextInput(FileC)>>, 0), active |-> 1],
       [tabs |-> WithIds(<<TextInput(FileA)>>, 1), active |-> 1]>>}

(* after activation: the visible editors have been seeded (line 269) *)
InitTracker ==
    /\ InitCommand
    /\ fileLocation = "global"
    /\ saveBehavior = "ask"
    /\ hasWorkspace = TRUE
    /\ customFolder = NoFolder
    /\ workspaceFolder = NoFolder
    /\ groups \in TrackedLayouts
    /\ activeGroup \in 1..Len(groups)
    /\ dirty = {}
    /\ missing \in {{}, {FileB}}
    /\ caret \in {NewCarets, [NewCarets EXCEPT ![UriToString(FileA)] = Moved]}
    /\ tracker = seedVisibleEditors(EmptyMap, caret, VisibleUris(groups))
    /\ heard = [s \in UriStrings |->
                  IF s \in VisibleUris(groups) THEN [n |-> "visible", pos |-> caret[s]]
                  ELSE [n |-> "none"]]
    /\ inbox = <<>>
    /\ deferred = TRUE
    /\ \E tabs \in TrackedSessions :
         fs = WithFile(EmptyFs, GlobalDir, "s1.json", JsonFile(tabs))
    /\ start = [groups |-> groups, fs |-> fs]
    /\ sessionData = NoSession
    /\ cmd = "restore"
    /\ entry = EntryOf(GlobalDir, "s1.json")
    /\ pc = "r_read"

NextTracker ==
    \/ RestoreEngine
    \/ NotificationDelivered
    \/ CaretMoved

SpecTracker == InitTracker /\ [][NextTracker]_vars

NextNotify ==
    \/ RestoreEngine
    \/ NotificationDelivered

SpecNotify == InitTracker /\ [][NextNotify]_vars

-----------------------------------------------------------------------------
(* SpecIntrude: the restore engine in a window where a file is opened, by  *)
(* something other than the restore, while a prompt of the loop of lines   *)
(* 392-408 is awaited.                                                     *)

IntruderFiles == {FileB, FileC}

TabOpenedAtPrompt ==
    /\ pc = "r_ask"
    /\ \A i \in 1..Len(log) : log[i].ev # "hostOpen"
    /\ \E u \in IntruderFiles \ OpenDocs(groups) :
         LET after == HostShow(groups, activeGroup, u, None, FALSE)
             new == CHOOSE id \in TabIds(after.groups) : id \notin TabIds(groups)
         IN /\ groups' = after.groups
            /\ activeGroup' = after.activeGroup
            /\ SetEars(Shown(Ears, groups, after.groups, u))
            /\ log' = Append(log, HostOpened(new, UriToString(u)))
    /\ UNCHANGED <<dirty, missing, fs, configVars, pc, cmd, entry, restoreVars, saveVars,
                   start, ncmds>>

InitIntrude ==
    /\ InitRest
    /\ groups \in TrackedLayouts
    /\ activeGroup \in 1..Len(groups)
    /\ dirty \in {{}, {FileC} \cap OpenDocs(groups)}
    /\ missing = {}
    /\ \E tabs \in {SavedA, SavedAB} :
         fs = WithFile(EmptyFs, GlobalDir, "s1.json", JsonFile(tabs))
    /\ start = [groups |-> groups, fs |-> fs]
    /\ sessionData = NoSession
    /\ cmd = "restore"
    /\ entry = EntryOf(GlobalDir, "s1.json")
    /\ pc = "r_read"

NextIntrude == RestoreEngine \/ TabOpenedAtPrompt

SpecIntrude == InitIntrude /\ [][NextIntrude]_vars

-----------------------------------------------------------------------------
(* SpecVersion: restore of the same tab lists stored without a version,    *)
(* as version 1 and as version 2.                                          *)

StoredVersions == {[t |-> "absent"], [t |-> "number", v |-> 1],
                   [t |-> "number", v |-> SESSION_FILE_VERSION]}

InitVersion ==
    /\ InitRest
    /\ groups \in TrackedLayouts
    /\ activeGroup \in 1..Len(groups)
    /\ dirty = {}
    /\ missing \in {{}, {FileB}}
    /\ \E tabs \in TrackedSessions, version \in StoredVersions :
         fs = WithFile(EmptyFs, GlobalDir, "s1.json",
                       JsonObject(version, [t |-> "array", v |-> tabs]))
    /\ start = [groups |-> groups, fs |-> fs]
    /\ sessionData = NoSession
    /\ cmd = "restore"
    /\ entry = EntryOf(GlobalDir, "s1.json")
    /\ pc = "r_read"

NextVersion == RestoreEngine

SpecVersion == InitVersion /\ [][NextVersion]_vars

-----------------------------------------------------------------------------
(* Reading the log.                                                        *)

LogIdx(e) == {i \in 1..Len(log) : log[i].ev = e}

Completed ==
    /\ pc = "done"
    /\ Len(log) > 0
    /\ log[Len(log)].ev = "info"
    /\ log[Len(log)].msg = "Restored session"

Canceled ==
    /\ pc = "done"
    /\ \E i \in LogIdx("info") : log[i].msg = "Session restore canceled."

ReplayOpens == {i \in LogIdx("open") : ~log[i].focus}
FocusOpens  == {i \in LogIdx("open") : log[i].focus}

(* the tab that has the focus of the window, if any *)
FocusedTab ==
    IF groups[activeGroup].active = 0 THEN None
    ELSE Some(groups[activeGroup].tabs[groups[activeGroup].active])

-----------------------------------------------------------------------------
(* Claims.                                                                 *)

(* the file-backed resource of a tab: its own document, the modified     *)
(* side of a diff, the destination of a merge                              *)
FileResource(tab) ==
    LET r == IF tab.input.kind = "text" THEN {tab.input.uri}
             ELSE IF tab.input.kind = "diff" THEN {tab.input.modified}
             ELSE IF tab.input.kind = "merge" THEN tab.input.destination
             ELSE {}
    IN {u \in r : u.scheme = "file"}

FileBackedTabs(gs) == {t \in TabsOf(gs) : FileResource(t) # {}}

StoredUris == {t.uri : t \in {FileAt(entry.fullPath).value.tabs.v[i] :
                                 i \in 1..Len(FileAt(entry.fullPath).value.tabs.v)}}

ForeignAtStart ==
    {t \in FileBackedTabs(start.groups) :
        \A u \in FileResource(t) : UriToString(u) \notin StoredUris}

PromptedIds == {log[i].tab : i \in LogIdx("prompt")}
ClosedIds   == {log[i].tab : i \in {j \in LogIdx("closeTab") : log[j].closed}}

PastPromptLoop == LogIdx("closeAll") # {}

(* C1: in restore, a prompt is shown only for a file-backed tab that was   *)
(* open at the start and is not in the session, once per such tab; every   *)
(* such tab has had its prompt when the prompt loop is left for close-all; *)
(* and a tab is closed in the prompt loop only right after the answer      *)
(* 'Close Tab' to the prompt for that very tab.                            *)
C1_PromptPerForeignTab ==
    pc \in {"r_ask", "r_close", "r_closeAll", "r_open", "r_focus", "done"} =>
        /\ PromptedIds \subseteq {t.id : t \in ForeignAtStart}
        /\ \A i, j \in LogIdx("prompt") : log[i].tab = log[j].tab => i = j
        /\ PastPromptLoop => PromptedIds = {t.id : t \in ForeignAtStart}
        /\ \A i \in LogIdx("closeTab") :
              /\ i >= 3
              /\ log[i - 1].ev = "choice"
              /\ log[i - 1].tab = log[i].tab
              /\ log[i - 1].choice = "Close Tab"
              /\ log[i - 2].ev = "prompt"
              /\ log[i - 2].tab = log[i].tab
        /\ ~PastPromptLoop =>
              \A t \in TabsOf(start.groups) : t \notin TabsOf(groups) => t.id \in ClosedIds

(* two foreign tabs were open next to a tab of the session: both were      *)
(* prompted for and closed, the session's tab was not prompted for         *)
C1_Witness ==
    /\ cmd = "restore"
    /\ pc = "r_closeAll"
    /\ Cardinality(ForeignAtStart) = 2
    /\ Cardinality(ClosedIds) = 2
    /\ Cardinality(TabsOf(start.groups)) = 3
    /\ Cardinality(TabsOf(groups)) = 1

NonEmptyTabSeqs(gs) ==
    SelectSeq([g \in 1..Len(gs) |-> gs[g].tabs], LAMBDA ts : ts # <<>>)

WithoutClosed(gs) ==
    [g \in 1..Len(gs) |->
        [gs[g] EXCEPT !.tabs = SelectSeq(gs[g].tabs, LAMBDA t : t.id \notin ClosedIds)]]

(* C2: an answer other than 'Close Tab' ends the restore at once with the  *)
(* cancellation message: the tabs closed before stay closed, every other   *)
(* tab is still open in its place, close-all was not run, no document was  *)
(* opened, no file changed, and completion is not reported.                *)
C2_CancelStopsRestore ==
    cmd = "restore" =>
        /\ \A i \in LogIdx("choice") :
              log[i].choice # "Close Tab" =>
                  /\ pc = "done"
                  /\ Len(log) = i + 1
                  /\ log[i + 1].ev = "info"
                  /\ log[i + 1].msg = "Session restore canceled."
        /\ Canceled =>
              /\ LogIdx("closeAll") = {}
              /\ LogIdx("open") = {}
              /\ ~Completed
              /\ \A i \in LogIdx("info") : log[i].msg # "Restored session"
              /\ NonEmptyTabSeqs(groups) = NonEmptyTabSeqs(WithoutClosed(start.groups))
              /\ fs = start.fs

(* the first foreign tab was closed, the prompt for the second one was     *)
(* dismissed; the second one and the session's tab are still open          *)
C2_Witness ==
    /\ cmd = "restore"
    /\ Canceled
    /\ Cardinality(ClosedIds) = 1
    /\ Cardinality(TabsOf(groups)) = 2
    /\ \E i \in LogIdx("choice") : log[i].choice = "undefined"

Precedes(a, b) ==
    \/ a.groupIndex < b.groupIndex
    \/ /\ a.groupIndex = b.groupIndex
       /\ \/ ~a.isGroupActive /\ b.isGroupActive
          \/ a.isGroupActive = b.isGroupActive /\ a.tabIndex <= b.tabIndex

Count(s, x) == Cardinality({i \in 1..Len(s) : s[i] = x})

SortKey(t) == <<t.groupIndex, t.tabIndex, t.isGroupActive>>

(* C3: the replay order is ascending groupIndex, then the pane-inactive    *)
(* descriptors before the pane-active ones, then ascending tabIndex, and   *)
(* it is a rearrangement of the session's tab list.                        *)
C3_ReplayOrder ==
    pc = "sorted" =>
        /\ Len(sortedTabs) = Len(sessionData.tabs)
        /\ \A i \in 1..Len(sortedTabs) :
              Count(sortedTabs, sortedTabs[i]) = Count(sessionData.tabs, sortedTabs[i])
        /\ \A i, j \in 1..Len(sortedTabs) :
              i < j => Precedes(sortedTabs[i], sortedTabs[j])

(* the example of the claim: {g0,t1,inactive},{g0,t0,inactive},            *)
(* {g0,t0,active} is replayed as t0 inactive, t1 inactive, t0 active       *)
C3_Witness ==
    /\ pc = "sorted"
    /\ Len(sessionData.tabs) = 3
    /\ [i \in 1..3 |-> SortKey(sessionData.tabs[i])]
          = << <<0, 1, FALSE>>, <<0, 0, FALSE>>, <<0, 0, TRUE>> >>
    /\ [i \in 1..3 |-> SortKey(sortedTabs[i])]
          = << <<0, 0, FALSE>>, <<0, 1, FALSE>>, <<0, 0, TRUE>> >>

Marked == {i \in 1..Len(sortedTabs) : sortedTabs[i].isGlobalActive}
LastMarked == sortedTabs[CHOOSE i \in Marked : \A j \in Marked : j <= i]

FocusIs(t) ==
    /\ FocusedTab # None
    /\ The(FocusedTab).input.kind = "text"
    /\ UriToString(The(FocusedTab).input.uri) = t.uri
    /\ activeGroup = t.viewColumn

(* C8, as stated: after the replay the descriptor marked isGlobalActive    *)
(* (the one seen last, when several are) is re-opened with focus and is    *)
(* the finally focused tab; with none marked there is no focused re-open.  *)
C8_FocusAsStated ==
    Completed =>
        IF Marked = {} THEN FocusOpens = {}
        ELSE /\ Cardinality(FocusOpens) = 1
             /\ \A i \in FocusOpens : log[i].uri = LastMarked.uri
             /\ FocusIs(LastMarked)

(* C8, amended: the focused re-open of the last marked descriptor is       *)
(* always attempted, once, as the last step before the completion report;  *)
(* that descriptor's document is the finally focused tab when the re-open  *)
(* succeeds; when it fails, or none is marked, the focus stays in the      *)
(* group the replay left it in.                                            *)
C8_Focus ==
    Completed =>
        IF Marked = {} THEN FocusOpens = {} /\ activeGroup = 1
        ELSE /\ FocusOpens = {Len(log) - 1}
             /\ log[Len(log) - 1].uri = LastMarked.uri
             /\ log[Len(log) - 1].ok => FocusIs(LastMarked)
             /\ ~log[Len(log) - 1].ok => activeGroup = 1

(* two descriptors of different documents are marked, the one replayed     *)
(* last wins and its document has the focus in the second group            *)
C8_Witness ==
    /\ Completed
    /\ Cardinality(Marked) = 2
    /\ \E i \in Marked : sortedTabs[i].uri # LastMarked.uri
    /\ sessionData.tabs[1] = LastMarked
    /\ FocusIs(LastMarked)
    /\ activeGroup = 2

(* C9: a descriptor whose document fails to open gets a warning and the    *)
(* replay goes on: each descriptor of the sorted order is attempted        *)
(* exactly once, in that order, whatever failed before it.                 *)
C9_ReplayContinues ==
    /\ pc \in {"r_open", "r_focus"} \/ Completed =>
          /\ Cardinality(ReplayOpens) = idx - 1
          /\ \A k \in 1..(idx - 1) :
                \E i \in ReplayOpens :
                    /\ log[i].k = k
                    /\ log[i].uri = sortedTabs[k].uri
                    /\ \A j \in ReplayOpens : j < i <=> log[j].k < k
          /\ \A i \in ReplayOpens :
                ~log[i].ok => log[i + 1].ev = "warn" /\ log[i + 1].msg = "Failed to open file"
    /\ Completed => idx = Len(sortedTabs) + 1

(* the first descriptor fails to open and the second is then opened *)
C9_Witness ==
    /\ Completed
    /\ Len(sortedTabs) = 2
    /\ \E i, j \in ReplayOpens :
          /\ log[i].k = 1 /\ ~log[i].ok
          /\ log[j].k = 2 /\ log[j].ok
          /\ i < j

-----------------------------------------------------------------------------
(* C4: once save-session has written its file, loading that file gives a   *)
(* session document with as many tabs as there are eligible tabs in the    *)
(* window (text, diff-modified or merge-destination over a file resource)  *)
(* and whose set of uri values is the set of those tabs' URIs.             *)

WrittenFiles == {[dir |-> log[i].dir, file |-> log[i].file] : i \in LogIdx("write")}

EligibleUris(gs) == {UriToString(u) : u \in UNION {FileResource(t) : t \in FileBackedTabs(gs)}}

TabUris(tabs) == {tabs[i].uri : i \in 1..Len(tabs)}

C4_RoundTrip ==
    (cmd = "save" /\ pc = "done") =>
        \A path \in WrittenFiles :
            LET res == readSessionFile(FileAt(path)) IN
            /\ res.data # None
            /\ Len(The(res.data).tabs) = Cardinality(FileBackedTabs(groups))
            /\ TabUris(The(res.data).tabs) = EligibleUris(groups)

C4_Witness ==
    /\ cmd = "save"
    /\ pc = "done"
    /\ WrittenFiles # {}
    /\ \E t \in FileBackedTabs(groups) : t.input.kind = "diff"
    /\ \E t \in TabsOf(groups) : t \notin FileBackedTabs(groups)

-----------------------------------------------------------------------------
(* C5: in save-session, overwrite-session and the save branch of           *)
(* restore-named-session, once the snapshot of a window without eligible   *)
(* tabs is taken the command is over, no session file was created or       *)
(* modified, and the user was told there is nothing to save.               *)

SavingCommands == {"save", "overwrite", "restoreNamed"}

ToldNothingToSave == \E i \in LogIdx("info") : log[i].msg = "No supported tabs to save."

C5_NothingToSave ==
    (cmd \in SavingCommands /\ snapshot # None /\ FileBackedTabs(start.groups) = {}) =>
        /\ pc = "done"
        /\ fs = start.fs
        /\ ToldNothingToSave

C5_Witness ==
    /\ cmd = "restoreNamed"
    /\ snapshot # None
    /\ FileBackedTabs(start.groups) = {}
    /\ TabsOf(start.groups) # {}
    /\ Exists([dir |-> GlobalDir, file |-> "s1.json"])
    /\ ToldNothingToSave

-----------------------------------------------------------------------------
(* C6: after a completed restore in which everything before was closed and *)
(* every file opened, a snapshot of the window has the same URIs in the    *)
(* same groups, in the same order within each group, with the same         *)
(* group-active and global-active tabs as the session that was restored.   *)

LayoutOf(tabs) ==
    [i \in 1..Len(tabs) |->
        [uri |-> tabs[i].uri, groupIndex |-> tabs[i].groupIndex,
         tabIndex |-> tabs[i].tabIndex, isGroupActive |-> tabs[i].isGroupActive,
         isGlobalActive |-> tabs[i].isGlobalActive]]

AllOpened == \A i \in LogIdx("open") : log[i].ok
AllClosed == \A i \in LogIdx("closeAll") : log[i].closed

C6_LayoutReproduced ==
    (cmd = "restore" /\ Completed /\ AllOpened /\ AllClosed) =>
        LayoutOf(createSessionSnapshot(groups, activeGroup, tracker).tabs)
            = LayoutOf(sessionData.tabs)

-----------------------------------------------------------------------------
(* C7: a session file that existed when a command started has the same    *)
(* content while the command runs and when it is over, unless the command  *)
(* is an overwrite-session of that very session, or a delete-session of    *)
(* it, after which the file is gone.                                       *)

StoredPaths == {[dir |-> d, file |-> f] : d \in Dirs, f \in FileNames}

C7_FileImmutable ==
    \A path \in StoredPaths :
        (pc # "idle"
            /\ start.fs[path.dir][path.file] # FileAbsent
            /\ FileAt(path) # start.fs[path.dir][path.file]) =>
                \/ cmd = "overwrite" /\ entry.fullPath = path /\ FileAt(path) # FileAbsent
                \/ cmd = "delete" /\ entry.fullPath = path /\ FileAt(path) = FileAbsent

-----------------------------------------------------------------------------
(* C10: restore-named-session, once it has a session and is over.  With no *)
(* non-untitled document open the engine runs, nothing is asked or         *)
(* written.  Otherwise: under 'yes' nothing is asked and the save branch   *)
(* is followed; under 'no' nothing is asked or written and the engine      *)
(* runs; under 'ask' the choice is offered and its branch is followed.     *)
(* The save branch writes the layout and then runs the engine, except that *)
(* it ends the command, with nothing written and no restore, when the user *)
(* cancels the unsaved-files prompt, the window has no eligible tab, or    *)
(* no storage directory resolves.                                          *)

NamedOver == cmd = "restoreNamed" /\ pc = "done" /\ entry # NoEntry

OpenAtStart == \E u \in TextDocuments(start.groups) : u.scheme # "untitled"

AskedSave == \E i \in LogIdx("ask") : log[i].what = "save"

Chose(what, c) == \E i \in LogIdx("answer") : log[i].what = what /\ log[i].choice = c

EngineRan == \E i \in LogIdx("read") : log[i].dir = entry.fullPath.dir /\ log[i].file = entry.fullPath.file

SavedThenRestored ==
    /\ WrittenFiles # {}
    /\ EngineRan
    /\ \A i \in LogIdx("write"), j \in LogIdx("read") : i < j

JustSwitched == EngineRan /\ WrittenFiles = {} /\ fs = start.fs

Stopped == ~EngineRan /\ WrittenFiles = {} /\ fs = start.fs /\ groups = start.groups

SaveStops ==
    \/ Chose("unsaved", "Cancel")
    \/ FileBackedTabs(start.groups) = {}
    \/ resolveSessionDirectory(TRUE, NoFolder) = None

SaveBranchFollowed == IF SaveStops THEN Stopped ELSE SavedThenRestored

SaveBranchAsStated == SavedThenRestored

PolicyFollowed(saveBranch) ==
    IF ~OpenAtStart
    THEN ~AskedSave /\ JustSwitched
    ELSE IF getAutoSaveBehavior = "yes" THEN ~AskedSave /\ saveBranch
    ELSE IF getAutoSaveBehavior = "no" THEN ~AskedSave /\ JustSwitched
    ELSE /\ AskedSave
         /\ Chose("save", "Yes") => saveBranch
         /\ Chose("save", "No") => JustSwitched
         /\ (Chose("save", "Cancel") \/ Chose("save", "undefined")) => Stopped

C10_PolicyAsStated == NamedOver => PolicyFollowed(SaveBranchAsStated)

C10_Policy == NamedOver => PolicyFollowed(SaveBranchFollowed)

C10_Witness ==
    /\ NamedOver
    /\ OpenAtStart
    /\ getAutoSaveBehavior = "yes"
    /\ SaveStops
    /\ Stopped

-----------------------------------------------------------------------------
(* C11: once a prompt of a command was declined or dismissed, that command *)
(* writes no session file, deletes none, saves no document, and closes or  *)
(* opens no tab.                                                           *)

Declined ==
    {i \in LogIdx("answer") : log[i].choice \in {"undefined", "Cancel"}}
    \cup {i \in LogIdx("choice") : log[i].choice \in {"undefined", "Cancel Restore"}}

Acts(j) ==
    \/ log[j].ev \in {"write", "read", "open", "closeAll", "closeTab"}
    \/ log[j].ev = "info" /\ log[j].msg = "Deleted session"

C11_DismissEnds ==
    \A i \in Declined : \A j \in (i + 1)..Len(log) : ~Acts(j)

-----------------------------------------------------------------------------
(* C12: a file that parses to an object with a tabs array and a missing or *)
(* non-numeric version loads as a session document of version 1 with those *)
(* tabs, the same tabs a file with a numeric version gives; its restore is *)
(* not rejected: no warning, the engine holds that document, ends          *)
(* completed or canceled, and a completed restore replayed every tab.      *)

RestoredFile == FileAt(entry.fullPath)

HasTabsArray(c) == c.tag = "json" /\ c.value.type = "object" /\ c.value.tabs.t = "array"

Unversioned(c) == HasTabsArray(c) /\ c.value.version.t # "number"

C12_DefaultVersion ==
    (cmd = "restore" /\ Unversioned(RestoredFile)) =>
        LET tabs == RestoredFile.value.tabs.v
            res == readSessionFile(RestoredFile)
        IN /\ res.data = Some([version |-> 1, tabs |-> tabs])
           /\ res.warning = "none"
           /\ The(res.data).tabs = The(readSessionFile(JsonFile(tabs)).data).tabs
           /\ (Len(tabs) > 0 /\ pc # "r_read") =>
                 /\ sessionData = [version |-> 1, tabs |-> tabs]
                 /\ LogIdx("warn") = {}
                 /\ pc = "done" => (Completed \/ Canceled)
                 /\ Completed => Cardinality(ReplayOpens) = Len(tabs)

C12_Witness ==
    /\ cmd = "restore"
    /\ Unversioned(RestoredFile)
    /\ RestoredFile.value.version.t = "absent"
    /\ Completed
    /\ Cardinality(ReplayOpens) = 2

-----------------------------------------------------------------------------
(* C13: a file that is missing, unreadable, no JSON, no object, or whose   *)
(* tabs member is missing or no array loads as no session data with the    *)
(* warning of its case; the restore that read it is over at once, has      *)
(* shown nothing but that warning, and the window is as it was.            *)

WarningFor(c) ==
    IF c.tag = "absent" THEN "Session file not found"
    ELSE IF c.tag = "json" THEN "Session file is invalid"
    ELSE "Failed to read session file"

EditorUntouched ==
    /\ groups = start.groups
    /\ LogIdx("prompt") \cup LogIdx("closeTab") \cup LogIdx("closeAll") \cup LogIdx("open") = {}

C13_NoSessionData ==
    (cmd = "restore" /\ ~HasTabsArray(RestoredFile)) =>
        /\ readSessionFile(RestoredFile) = [data |-> None, warning |-> WarningFor(RestoredFile)]
        /\ pc \in {"r_read", "done"}
        /\ EditorUntouched
        /\ pc = "done" =>
              log = <<ReadFile(entry.fullPath), Warn(WarningFor(RestoredFile))>>

C13_Witness ==
    /\ cmd = "restore"
    /\ pc = "done"
    /\ RestoredFile.tag = "json"
    /\ RestoredFile.value.type = "object"
    /\ RestoredFile.value.tabs.t = "absent"
    /\ TabsOf(groups) # {}
    /\ LogIdx("warn") # {}

-----------------------------------------------------------------------------
(* C14: the restore of a session whose tabs list is empty is over at once  *)
(* with one warning: no foreign-tab prompt, no tab closed, no document     *)
(* opened, no completion message, the window as it was.                    *)

EmptySession(c) == HasTabsArray(c) /\ c.value.tabs.v = <<>>

C14_EmptySessionNoOp ==
    (cmd = "restore" /\ EmptySession(RestoredFile)) =>
        /\ pc \in {"r_read", "done"}
        /\ EditorUntouched
        /\ LogIdx("info") = {}
        /\ pc = "done" =>
              log = <<ReadFile(entry.fullPath), Warn("Session does not contain any tabs")>>

C14_Witness ==
    /\ cmd = "restore"
    /\ pc = "done"
    /\ EmptySession(RestoredFile)
    /\ FileBackedTabs(groups) # {}
    /\ \E i \in LogIdx("warn") : log[i].msg = "Session does not contain any tabs"

-----------------------------------------------------------------------------
(* C15: a delete-session that was confirmed has removed the file of its    *)
(* session and changed no other file of any directory, and the listing of  *)
(* that file's directory then holds the names it held before except the    *)
(* deleted one; a delete-session that was not confirmed has removed        *)
(* nothing.                                                                *)

FsNodes == FileNames \cup {DirNode}

OthersUnchanged(path) ==
    \A d \in Dirs, g \in FsNodes :
        (d # path.dir \/ g # path.file) => fs[d][g] = start.fs[d][g]

ListedDir == resolveSessionDirectory(FALSE, NoFolder)

ListedNames == {listSessions[i].name : i \in 1..Len(listSessions)}

NamesBefore(dir) == {n \in {"s1", "S2", "session-ts"} : start.fs[dir][n \o ".json"] # FileAbsent}

C15_DeleteExactlyOne ==
    (cmd = "delete" /\ pc # "idle") =>
        IF pc = "done" /\ Chose("delete", "Delete")
        THEN /\ FileAt(entry.fullPath) = FileAbsent
             /\ OthersUnchanged(entry.fullPath)
             /\ ListedDir = Some(entry.fullPath.dir) =>
                    ListedNames = NamesBefore(entry.fullPath.dir) \ {entry.name}
        ELSE fs = start.fs

C15_Witness ==
    /\ cmd = "delete"
    /\ pc = "done"
    /\ Chose("delete", "Delete")
    /\ entry.name = "S2"
    /\ ListedDir = Some(entry.fullPath.dir)
    /\ ListedNames = {"s1", "session-ts"}

-----------------------------------------------------------------------------
(* C17: a delete-all-sessions confirmed with 'Delete All' has removed      *)
(* every file whose name ends in .json from the session directory of the   *)
(* current storage mode and changed nothing else: the other files of that  *)
(* directory and every file of the other directories are as before; a      *)
(* delete-all-sessions that was not confirmed has removed nothing.         *)

IsSessionName(g) == \E n \in {"s1", "S2", "session-ts"} : g = n \o ".json"

-----------------------------------------------------------------------------
(* C20: the listing has one record per file of the resolved directory      *)
(* whose name ends in .json, named by the file name without .json, at the  *)
(* path of the file, in case-insensitive order of the names; it is empty   *)
(* when the directory is unresolved or does not exist.                     *)

CaseInsensitiveOrder == <<"s1", "S2", "session-ts">>

PlaceOf(name) == CHOOSE k \in 1..Len(CaseInsensitiveOrder) : CaseInsensitiveOrder[k] = name

C20_Listing ==
    IF ListedDir = None \/ fs[The(ListedDir)][DirNode] = FileAbsent
    THEN listSessions = <<>>
    ELSE LET dir == The(ListedDir) IN
         /\ Len(listSessions) = Cardinality({g \in FileNames : IsSessionName(g) /\ fs[dir][g] # FileAbsent})
         /\ \A i \in 1..Len(listSessions) :
               /\ listSessions[i].fullPath = [dir |-> dir, file |-> listSessions[i].name \o ".json"]
               /\ fs[dir][listSessions[i].fullPath.file] # FileAbsent
         /\ \A i, j \in 1..Len(listSessions) :
               i < j => PlaceOf(listSessions[i].name) < PlaceOf(listSessions[j].name)

C20_Witness ==
    /\ Len(listSessions) = 2
    /\ listSessions[1].name = "s1"
    /\ listSessions[2].name = "S2"
    /\ fs[The(ListedDir)]["notes.txt"] # FileAbsent
    /\ cmd = "delete"

-----------------------------------------------------------------------------
(* C16: under save-session and change-file-location a session of the       *)
(* global directory stays there, is listed whenever the mode is global,    *)
(* and is listed in another mode only when that mode lists the global      *)
(* directory itself, which is the case of custom mode with the global      *)
(* storage folder as custom folder.  As stated, it is not listed in any    *)
(* other mode.                                                             *)

GlobalSessions == {g \in FileNames : IsSessionName(g) /\ fs[GlobalDir][g] # FileAbsent}

ListedPaths == {listSessions[i].fullPath : i \in 1..Len(listSessions)}

ListedInGlobalMode ==
    fileLocation = "global" =>
        \A g \in GlobalSessions : [dir |-> GlobalDir, file |-> g] \in ListedPaths

HiddenInOtherModes ==
    fileLocation # "global" =>
        \A g \in GlobalSessions : [dir |-> GlobalDir, file |-> g] \notin ListedPaths

HiddenUnlessSameDirectory ==
    (fileLocation # "global"
        /\ ~(fileLocation = "custom" /\ customFolder = GlobalStorage)) =>
        \A g \in GlobalSessions : [dir |-> GlobalDir, file |-> g] \notin ListedPaths

(* the sessions the global directory held when the command started are    *)
(* still there                                                             *)
GlobalSessionsStay ==
    \A g \in FileNames :
        (IsSessionName(g) /\ start.fs[GlobalDir][g] # FileAbsent) => g \in GlobalSessions

C16_PartitionAsStated ==
    ListedInGlobalMode /\ HiddenInOtherModes /\ GlobalSessionsStay

C16_Partition ==
    ListedInGlobalMode /\ HiddenUnlessSameDirectory /\ GlobalSessionsStay

C16_Witness ==
    /\ cmd = "changeLocation"
    /\ pc = "done"
    /\ fileLocation = "workspace"
    /\ fs[GlobalDir]["s1.json"] =
           JsonStringify(createSessionSnapshot(groups, activeGroup, tracker))
    /\ ListedDir = Some(WorkspaceDir)
    /\ Len(listSessions) = 1

-----------------------------------------------------------------------------
(* C19: the locator returns unresolved in workspace mode when no folder is *)
(* open and no stored workspace folder exists, and in custom mode when no  *)
(* configured folder exists and prompting is disallowed or the dialog is   *)
(* declined; a save-session that reaches the locator in such a state, the  *)
(* dialog if any being declined, returns with the file system as it was    *)
(* when it started: no file written, no directory created.  As stated, workspace mode with no  *)
(* open folder suffices.                                                   *)

PromptFlags == BOOLEAN

FolderAnswers == {NoFolder} \cup PickableFolders

NoCustomPath(promptUser, picked) ==
    /\ fileLocation = "custom"
    /\ ~(customFolder # NoFolder /\ existsSync(customFolder))
    /\ (~promptUser \/ picked = NoFolder)

NoPath(promptUser, picked) ==
    \/ /\ fileLocation = "workspace"
       /\ ~hasWorkspace
       /\ ~(workspaceFolder # NoFolder /\ existsSync(workspaceFolder))
    \/ NoCustomPath(promptUser, picked)

NoPathAsStated(promptUser, picked) ==
    \/ fileLocation = "workspace" /\ ~hasWorkspace
    \/ NoCustomPath(promptUser, picked)

(* save-session has reached the locator and returned; a folder picked in   *)
(* the dialog would be the configured custom folder by now                 *)
SaveReturned ==
    /\ cmd = "save"
    /\ pc = "done"
    /\ snapshot # None
    /\ Len(The(snapshot).tabs) > 0

SaveAborted ==
    /\ WrittenFiles = {}
    /\ fs = start.fs

C19_Unresolved ==
    /\ \A p \in PromptFlags, picked \in FolderAnswers :
           NoPath(p, picked) => resolveSessionDirectory(p, picked) = None
    /\ (SaveReturned /\ NoPath(TRUE, NoFolder)) => SaveAborted

C19_UnresolvedAsStated ==
    /\ \A p \in PromptFlags, picked \in FolderAnswers :
           NoPathAsStated(p, picked) => resolveSessionDirectory(p, picked) = None
    /\ (SaveReturned /\ NoPathAsStated(TRUE, NoFolder)) => SaveAborted

C19_Witness ==
    /\ SaveReturned
    /\ NoPath(TRUE, NoFolder)
    /\ fileLocation = "custom"
    /\ customFolder = RemovedFolder
    /\ WrittenFiles = {}
    /\ fs = start.fs

-----------------------------------------------------------------------------
(* C18: overwrite-session writes at most the chosen session's file; it     *)
(* writes it exactly when 'Overwrite' was confirmed, the unsaved-files     *)
(* choice was not 'Cancel' and the window has an eligible tab, and the     *)
(* content is then the snapshot of the open tabs; otherwise, and until     *)
(* then, every file is as it was when the command started.                 *)

OverwriteGoesAhead ==
    /\ Chose("overwrite", "Overwrite")
    /\ ~Chose("unsaved", "Cancel")
    /\ Len(createSessionSnapshot(groups, activeGroup, tracker).tabs) > 0

C18_Overwrite ==
    (cmd = "overwrite" /\ pc # "idle") =>
        IF pc = "done" /\ OverwriteGoesAhead
        THEN /\ WrittenFiles = {entry.fullPath}
             /\ FileAt(entry.fullPath) =
                    JsonStringify(createSessionSnapshot(groups, activeGroup, tracker))
             /\ OthersUnchanged(entry.fullPath)
        ELSE /\ WrittenFiles = {}
             /\ fs = start.fs

C18_Witness ==
    /\ cmd = "overwrite"
    /\ pc = "done"
    /\ OverwriteGoesAhead
    /\ Chose("unsaved", "Continue Without Saving")
    /\ FileAt(entry.fullPath) # start.fs[entry.fullPath.dir][entry.fullPath.file]
    /\ \E g \in JsonNames \ {entry.fullPath.file} : fs[entry.fullPath.dir][g] # FileAbsent

-----------------------------------------------------------------------------
(* C21: the snapshot of the window, in every state and whatever its groups *)
(* and tabs, and the snapshot a save has taken, hold at most one           *)
(* descriptor with isGlobalActive = true.                                  *)

GlobalActives(tabs) == {i \in 1..Len(tabs) : tabs[i].isGlobalActive}

GroupActives(tabs) == {i \in 1..Len(tabs) : tabs[i].isGroupActive}

C21_OneGlobalActive ==
    /\ Cardinality(GlobalActives(createSessionSnapshot(groups, activeGroup, tracker).tabs)) <= 1
    /\ snapshot # None => Cardinality(GlobalActives(The(snapshot).tabs)) <= 1

C21_Witness ==
    /\ cmd = "save"
    /\ pc = "done"
    /\ WrittenFiles # {}
    /\ Len(groups) = 2
    /\ Cardinality(GroupActives(The(snapshot).tabs)) = 2
    /\ Cardinality(GlobalActives(The(snapshot).tabs)) = 1

-----------------------------------------------------------------------------
(* C22: the session document written by a save holds no two descriptors    *)
(* with the same uri.                                                      *)

DistinctUris(tabs) ==
    \A i, j \in 1..Len(tabs) : tabs[i].uri = tabs[j].uri => i = j

C22_UniqueUris ==
    (pc = "done" /\ WrittenFiles # {} /\ snapshot # None) => DistinctUris(The(snapshot).tabs)

-----------------------------------------------------------------------------
(* C25: when a restore has reported completion, close-all has closed every *)
(* editor, and the open tabs are text tabs of exactly the session          *)
(* documents that opened.                                                  *)

OpenedUris == {log[i].uri : i \in {j \in LogIdx("open") : log[j].ok}}

TextTabs(gs) == {t \in TabsOf(gs) : t.input.kind = "text"}

OpenTabUris(gs) == {UriToString(t.input.uri) : t \in TextTabs(gs)}

C25_OnlySessionTabs ==
    (cmd = "restore" /\ Completed) =>
        /\ AllClosed
        /\ TabsOf(groups) = TextTabs(groups)
        /\ OpenTabUris(groups) = OpenedUris

-----------------------------------------------------------------------------
(* C23: every key of the cursor tracker is a document that is open, or     *)
(* that was closed and whose close notification the extension has not been *)
(* given yet; once the extension has been told last that a document was    *)
(* closed, the tracker has no entry for it.                                *)

OpenUris == {UriToString(u) : u \in OpenDocs(groups)}

ClosingUris == {inbox[i].uri : i \in {j \in 1..Len(inbox) : inbox[j].n = "close"}}

C23_KeysAreOpen ==
    /\ DOMAIN tracker \subseteq OpenUris \cup ClosingUris
    /\ \A s \in UriStrings : heard[s].n = "close" => s \notin DOMAIN tracker

C23_Witness ==
    /\ UriToString(FileA) \notin OpenUris
    /\ heard[UriToString(FileA)].n = "close"
    /\ UriToString(FileA) \notin DOMAIN tracker
    /\ UriToString(FileB) \in DOMAIN tracker
    /\ LogIdx("closeAll") # {}

-----------------------------------------------------------------------------
(* C24: in the snapshot of the window each descriptor's cursor is the      *)
(* tracker's entry for its uri, and the written descriptor has a cursor    *)
(* field exactly when there is one; the tracker's entry is the caret of    *)
(* the last selection change, re-seed or restore recording the extension   *)
(* was told of for that document, and there is none when it was told of    *)
(* nothing or was told last that the document was closed.                  *)

SnapshotNow == createSessionSnapshot(groups, activeGroup, tracker)

CursorFromTracker(d) ==
    /\ d.cursor = (IF d.uri \in DOMAIN tracker THEN {tracker[d.uri]} ELSE {})
    /\ "cursor" \in DOMAIN StringifyTab(d) <=> d.uri \in DOMAIN tracker
    /\ d.uri \in DOMAIN tracker => StringifyTab(d).cursor = tracker[d.uri]

TrackerIsLastHeard(s) ==
    IF heard[s].n \in {"selection", "visible", "record"}
    THEN s \in DOMAIN tracker /\ tracker[s] = heard[s].pos
    ELSE s \notin DOMAIN tracker

C24_CursorIsLastCaret ==
    /\ \A i \in 1..Len(SnapshotNow.tabs) : CursorFromTracker(SnapshotNow.tabs[i])
    /\ \A s \in UriStrings : TrackerIsLastHeard(s)

C24_Witness ==
    /\ Completed
    /\ Len(SnapshotNow.tabs) = 2
    /\ SnapshotNow.tabs[1].cursor = {Moved}
    /\ heard[SnapshotNow.tabs[1].uri].n = "selection"
    /\ SnapshotNow.tabs[2].cursor = {}
    /\ heard[SnapshotNow.tabs[2].uri].n = "none"

-----------------------------------------------------------------------------
(* C30: when a restore of a session with distinct uris has reported        *)
(* completion, the tracker holds, for every replayed descriptor with a     *)
(* cursor whose document opened, that cursor, whenever the host's          *)
(* notifications were delivered.                                           *)

RecordedCursors ==
    {k \in 1..Len(sortedTabs) :
        /\ CursorOf(sortedTabs[k]) # None
        /\ \E i \in ReplayOpens : log[i].k = k /\ log[i].ok}

C30_CursorsRecorded ==
    (cmd = "restore" /\ Completed /\ DistinctUris(sessionData.tabs)) =>
        \A k \in RecordedCursors :
            /\ sortedTabs[k].uri \in DOMAIN tracker
            /\ tracker[sortedTabs[k].uri] = The(CursorOf(sortedTabs[k]))

-----------------------------------------------------------------------------
(* C26: the steps of a restore occur in this order: the reading of the     *)
(* file, the prompts for the foreign tabs with the closes they trigger,    *)
(* close-all, the replay opens in the sorted order, the focused re-open    *)
(* of the global-active descriptor, the completion report as the last      *)
(* event; no document is opened before close-all and no prompt is shown    *)
(* after it.                                                               *)

StepOf(e) ==
    CASE e.ev \in {"prompt", "choice", "closeTab"} -> 1
      [] e.ev = "closeAll" -> 2
      [] e.ev = "open" -> IF e.focus THEN 4 ELSE 3
      [] e.ev = "warn" -> IF e.msg = "Failed to open file" THEN 3 ELSE 0
      [] e.ev = "throw" -> 3
      [] e.ev = "info" -> IF e.msg = "Restored session" THEN 5 ELSE 1
      [] OTHER -> 0

C26_StepOrder ==
    cmd = "restore" =>
        /\ \A i, j \in 1..Len(log) : i < j => StepOf(log[i]) <= StepOf(log[j])
        /\ Cardinality(LogIdx("closeAll")) <= 1
        /\ \A i \in LogIdx("open") : \E j \in LogIdx("closeAll") : j < i
        /\ \A i \in LogIdx("prompt") : \A j \in LogIdx("closeAll") : i < j
        /\ \A i, j \in ReplayOpens : i < j => log[i].k < log[j].k
        /\ \A i \in ReplayOpens : log[i].uri = sortedTabs[log[i].k].uri
        /\ \A i \in 1..Len(log) : StepOf(log[i]) = 5 => i = Len(log) /\ pc = "done"
        /\ Completed =>
              /\ Cardinality(LogIdx("closeAll")) = 1
              /\ {log[i].k : i \in ReplayOpens} = 1..Len(sortedTabs)
              /\ IF Marked = {} THEN FocusOpens = {}
                 ELSE /\ FocusOpens = {Len(log) - 1}
                      /\ log[Len(log) - 1].uri = LastMarked.uri

(* a restore that went through every step: a prompt and its close, *)
(* close-all, two replay opens, the focused re-open, the report    *)
C26_Witness ==
    /\ cmd = "restore"
    /\ Completed
    /\ \E i \in LogIdx("closeTab") : log[i].closed
    /\ Cardinality(ReplayOpens) >= 2
    /\ FocusOpens # {}
    /\ [i \in 1..5 |-> log[i].ev] = <<"read", "prompt", "choice", "closeTab", "closeAll">>

-----------------------------------------------------------------------------
(* C27: a restore is cancelled only in the prompt loop; a restore that     *)
(* has executed close-all ends with the completion report, whichever of    *)
(* its documents opened.                                                   *)

CanceledAfterCloseAll ==
    \E i \in LogIdx("info"), j \in LogIdx("closeAll") :
        log[i].msg = "Session restore canceled." /\ j < i

C27_AlwaysCompletes ==
    (cmd = "restore" /\ PastPromptLoop) =>
        /\ ~CanceledAfterCloseAll
        /\ pc \in {"r_open", "r_focus", "done"}
        /\ pc = "done" => Completed

-----------------------------------------------------------------------------
(* C29: the replay sequence and the descriptor that is focused at the end  *)
(* are those of every rearrangement of the file's tab list.                *)

Rearranged(tabs) ==
    {[i \in 1..Len(tabs) |-> tabs[f[i]]] : f \in Permutations(1..Len(tabs))}

LastMarkedOf(st) ==
    LET m == {i \in 1..Len(st) : st[i].isGlobalActive} IN
    IF m = {} THEN None ELSE Some(st[CHOOSE i \in m : \A j \in m : j <= i])

(* the descriptors replayed so far, and the one re-opened with focus *)
Replayed == [k \in 1..Cardinality(ReplayOpens) |-> sortedTabs[k]]

IsPrefix(a, b) == Len(a) <= Len(b) /\ \A i \in 1..Len(a) : a[i] = b[i]

SameRunAs(p) ==
    /\ IsPrefix(Replayed, sortTabs(p))
    /\ Completed =>
          /\ Replayed = sortTabs(p)
          /\ IF FocusOpens = {} THEN LastMarkedOf(sortTabs(p)) = None
             ELSE /\ globalActive = LastMarkedOf(sortTabs(p))
                  /\ log[Len(log) - 1].ok => FocusIs(The(LastMarkedOf(sortTabs(p))))

DistinctKeys(tabs) ==
    \A i, j \in 1..Len(tabs) : SortKey(tabs[i]) = SortKey(tabs[j]) => i = j

(* C29, as stated: for every session document *)
C29_OrderIndependentAsStated ==
    (cmd = "restore" /\ PastPromptLoop) =>
        \A p \in Rearranged(sessionData.tabs) : SameRunAs(p)

(* C29, amended: for the session documents whose descriptors differ        *)
(* pairwise in groupIndex, isGroupActive or tabIndex, as those of every    *)
(* saved snapshot do; descriptors that agree in all three are replayed in  *)
(* the order of the file.                                                  *)
C29_OrderIndependent ==
    (cmd = "restore" /\ PastPromptLoop /\ DistinctKeys(sessionData.tabs)) =>
        \A p \in Rearranged(sessionData.tabs) : SameRunAs(p)

(* a finished restore of two descriptors, both marked global-active, that  *)
(* the file lists in the reverse of the replay order                       *)
C29_Witness ==
    /\ cmd = "restore"
    /\ Completed
    /\ DistinctKeys(sessionData.tabs)
    /\ Len(sessionData.tabs) = 2
    /\ sortedTabs = <<sessionData.tabs[2], sessionData.tabs[1]>>
    /\ \A i \in 1..2 : sessionData.tabs[i].isGlobalActive
    /\ sessionData.tabs[1].uri # sessionData.tabs[2].uri
    /\ FocusOpens # {}

-----------------------------------------------------------------------------
(* C28: in the save branch of restore-named-session the name is asked      *)
(* first and the layout is serialized after the answer, so the snapshot    *)
(* that is written is that of the editor state at the answer; then the     *)
(* file is written, and only then the restore engine runs; when the        *)
(* unsaved-files choice is 'Cancel' or the storage directory is            *)
(* unresolved, no file is written and the engine does not run.             *)

NameAnswers == {i \in LogIdx("answer") : log[i].what = "name"}

(* the name has just been answered: the editor is as it was at the answer *)
NameJustAnswered == cmd = "restoreNamed" /\ pc = "n_write"

SnapshotAfterName ==
    NameJustAnswered =>
        The(snapshot) = createSessionSnapshot(groups, activeGroup, tracker)

NameThenWriteThenEngine ==
    /\ \A w \in LogIdx("write") : \E n \in NameAnswers : n < w
    /\ \A r \in LogIdx("read") : \A n \in NameAnswers :
          n < r /\ \E w \in LogIdx("write") : n < w /\ w < r

StoppedBeforeWrite ==
    (pc = "done" /\ (Chose("unsaved", "Cancel")
                     \/ (NameAnswers # {} /\ LogIdx("write") = {}))) =>
        /\ fs = start.fs
        /\ ~EngineRan

C28_SaveBranchOrder ==
    cmd = "restoreNamed" =>
        /\ SnapshotAfterName
        /\ NameThenWriteThenEngine
        /\ StoppedBeforeWrite

-----------------------------------------------------------------------------
(* C31: the restore of a tab list is the same whether the file has no      *)
(* version, version 1 or version 2: the prompts, the replay order, the     *)
(* cursors applied and the final focus are those the tab list alone        *)
(* determines, and a descriptor without a cursor sets no caret.            *)

StoredTabs == FileAt(entry.fullPath).value.tabs.v

StoredVersion == FileAt(entry.fullPath).value.version

(* the descriptor of an open of the log, by the stored tab list alone *)
DescOf(i) ==
    IF log[i].focus THEN The(LastMarkedOf(sortTabs(StoredTabs)))
    ELSE sortTabs(StoredTabs)[log[i].k]

CursorOpens(s) ==
    {i \in LogIdx("open") : log[i].ok /\ log[i].uri = s /\ CursorOf(DescOf(i)) # None}

LastCursorOpen(s) == CHOOSE i \in CursorOpens(s) : \A j \in CursorOpens(s) : j <= i

CursorsAsStored ==
    \A s \in UriStrings :
        IF CursorOpens(s) # {}
        THEN /\ caret[s] = The(CursorOf(DescOf(LastCursorOpen(s))))
             /\ s \in DOMAIN tracker
             /\ tracker[s] = caret[s]
        ELSE /\ caret[s] = Origin
             /\ heard[s].n \notin {"record", "selection"}

C31_VersionBlind ==
    (cmd = "restore" /\ sessionData # NoSession) =>
        /\ sessionData.tabs = StoredTabs
        /\ PromptedIds \subseteq {t.id : t \in ForeignAtStart}
        /\ PastPromptLoop =>
              /\ PromptedIds = {t.id : t \in ForeignAtStart}
              /\ SameRunAs(StoredTabs)
        /\ CursorsAsStored

(* a file without a version: a prompt was answered, the first descriptor   *)
(* was replayed with its cursor, the second, which has none, was focused   *)
(* with the caret of a new editor                                          *)
C31_Witness ==
    /\ cmd = "restore"
    /\ Completed
    /\ StoredVersion.t = "absent"
    /\ sessionData.version = 1
    /\ PromptedIds # {}
    /\ Len(StoredTabs) = 2
    /\ CursorOf(StoredTabs[1]) = Some(Moved)
    /\ CursorOf(StoredTabs[2]) = None
    /\ caret[StoredTabs[1].uri] = Moved
    /\ caret[StoredTabs[2].uri] = Origin
    /\ FocusIs(StoredTabs[2])

-----------------------------------------------------------------------------
(* C32: a file-backed tab outside the session, open at the start of the    *)
(* restore or opened while a prompt was awaited, is closed only after the  *)
(* answer 'Close Tab' to a prompt for that tab.                            *)

OpenedAtPrompt ==
    {log[i].tab : i \in {j \in LogIdx("hostOpen") : log[j].uri \notin StoredUris}}

ForeignIds == {t.id : t \in ForeignAtStart} \cup OpenedAtPrompt

ChosenToClose ==
    {log[i].tab : i \in {j \in LogIdx("choice") : log[j].choice = "Close Tab"}}

C32_NoUnaskedClose ==
    cmd = "restore" =>
        \A id \in ForeignIds : id \notin TabIds(groups) => id \in ChosenToClose

-----------------------------------------------------------------------------
(* C33: a restore that has ended has exactly one of four outcomes: a       *)
(* warning that the file gave no session data, the warning of the empty    *)
(* session, the cancellation, the completion report; it showed at most     *)
(* one prompt for each tab open at its start and made at most one open     *)
(* per descriptor and one more.                                            *)

ReadWarnings ==
    {"Session file not found", "Failed to read session file", "Session file is invalid"}

LastEvent == log[Len(log)]

EndedWithoutData == LastEvent.ev = "warn" /\ LastEvent.msg \in ReadWarnings

EndedEmpty ==
    LastEvent.ev = "warn" /\ LastEvent.msg = "Session does not contain any tabs"

Outcomes == <<EndedWithoutData, EndedEmpty, Canceled, Completed>>

C33_FourOutcomes ==
    cmd = "restore" =>
        /\ pc = "done" => Cardinality({o \in 1..4 : Outcomes[o]}) = 1
        /\ PromptedIds \subseteq TabIds(start.groups)
        /\ \A i, j \in LogIdx("prompt") : log[i].tab = log[j].tab => i = j
        /\ Cardinality(LogIdx("open")) <= Len(sessionData.tabs) + 1

====
